---- MODULE Spec2Model ----
(***************************************************************************)
(* Document catalog: the Document Store (singleton, observers, sort/view   *)
(* state, persistence through localStorage) and the realtime channel's     *)
(* WebSocketService (connection / bounded-retry state machine), and        *)
(* SortingService.toggleSort.                                              *)
(*                                                                         *)
(* The specifications of the module:                                       *)
(*   Spec         the Store, its subscribers and the Persistence Gateway   *)
(*   ClientSpec   the Store and a client changing what getDocuments gave   *)
(*   SortSpec     the Store sorting by version, and toggleSort             *)
(*   WSSpec       the WebSocketService, its sockets and its timers         *)
(*   WSRetrySpec  the same with sockets that never open, under fairness    *)
(*   WSMsgSpec    the WebSocketService receiving and sending frames        *)
(*   ControllerSpec  the DocumentController, the user and the channel      *)
(*   GatewaySpec     saveDocuments and loadDocuments called directly       *)
(*   RestartSpec     the Store over several loads of the page              *)
(*   BootSpec        main.ts: the controller, the initial fetch, connect   *)
(*   WSFailSpec      the WebSocketService when the constructor always throws *)
(*   ListenerSpec    the Store and a client that subscribes listeners twice  *)
(***************************************************************************)
EXTENDS Integers, Sequences, FiniteSets, TLC

VARIABLES
  \* ---- Store (src/src/store/store.test.ts:522-639) --------------------
  instance,      \* Store.instance: 0 = undefined, else the id of the Store object
  heap,          \* Document objects of this process; a reference is an index
  documents,     \* Store.documents: sequence of references, insertion order
  documentMap,   \* Store.documentMap: set of IDs recorded by addDocument
  listeners,     \* Store.listeners: a JS Set, kept in insertion order
  sortField,     \* Store.sortField
  sortOrder,     \* Store.sortOrder
  viewMode,      \* Store.viewMode
  storage,       \* localStorage["documents"]
  \* ---- the Store's client ---------------------------------------------
  arrays,        \* arrays returned by getDocuments(), by handle (index)
  held,          \* array handles the client holds; handle 0 is Store.documents
  clientRefs,    \* references to Document objects the client holds
  nClientMut,    \* client-side changes of returned arrays / objects so far
  \* ---- observation of the Store ---------------------------------------
  created,       \* Store objects constructed in this process
  loadCalls,     \* loadDocuments() calls in this process
  subscribed,    \* the subscribed listeners, in the order they subscribed
  owed,          \* per listener: mutating calls minus invocations since it subscribed
  gone,          \* listeners whose unsubscribe handle was called, not subscribed since
  lastCall,      \* the last call: name, argument, effects, what listeners saw
  \* ---- WebSocketService (src/src/services/webSocketService.ts) ---------
  ws,                  \* this.ws: 0 = null, else the socket's id
  socks,               \* per constructed socket: its readyState
  reconnectAttempts,   \* this.reconnectAttempts
  reconnectTimeout,    \* this.reconnectTimeout: 0 = null, else a timer id
  timers,              \* ids of the reconnect timers that are pending
  nTimers,             \* timers created so far
  deferred,            \* notifications whose setTimeout(.., 0) callback is pending
  handled,             \* arguments onDocumentReceived was called with, in order
  wire,                \* what WebSocket.send transmitted: <<socket id, payload>>
  \* ---- observation of the WebSocketService ------------------------------
  wsLog,               \* counts of the events and calls so far
  wsLast,              \* the last call or event and what it did
  arrived,             \* the frames that JSON.parse accepted, in arrival order
  idle,                \* disconnect() was called and connect() not since
  doomed,              \* the pending timers that a disconnect() call found pending
  abandoned            \* the retry budget was spent, and what happened since

storeVars == << instance, heap, documents, documentMap, listeners, sortField,
                sortOrder, viewMode, storage, arrays, held, clientRefs, nClientMut,
                created, loadCalls, subscribed, owed, gone, lastCall >>
wsVars == << ws, socks, reconnectAttempts, reconnectTimeout, timers, nTimers,
            deferred, handled, wire, wsLog, wsLast, arrived, idle, doomed, abandoned >>
vars == << storeVars, wsVars >>

(***************************************************************************)
(* Bounds of the model                                                     *)
(***************************************************************************)
MaxHeap == 3        \* Document objects alive in one process
MaxStored == 2      \* documents in the snapshot an earlier session left
MaxArrays == 2      \* getDocuments() results the client keeps
MaxClientMut == 1   \* client-side changes explored
MaxSockets == 7     \* WebSocket objects constructed
MaxConnects == 2    \* explicit connect() calls
MaxDisconnects == 1 \* disconnect() calls
MaxThrows == 1      \* WebSocket constructor failures
MaxOpens == 1       \* open events
MaxMsgSockets == 2  \* WebSocket objects constructed where frames are exchanged
MaxFrames == 2      \* inbound frames
MaxSends == 1       \* send() calls
MaxVersions == 3    \* documents of a collection that is sorted by version
MaxPageDocs == 2    \* Document objects alive in a page that has a controller
MaxSaved == 2       \* documents handed to one saveDocuments call
MaxFetched == 2     \* documents in the response to the initial fetch
MaxFailures == 8    \* WebSocket constructor failures where it always fails
MaxLoads == 2       \* loadDocuments() calls made directly

Range(s) == { s[i] : i \in DOMAIN s }

(***************************************************************************)
(* Numbers and instants.  A JS number is an integer or NaN; a Date holds a *)
(* time value that is a number (NaN for an Invalid Date).                  *)
(***************************************************************************)
Num(v) == [nan |-> FALSE, v |-> v]
NaN == [nan |-> TRUE, v |-> 0]
NumSub(x, y) == IF x.nan \/ y.nan THEN NaN ELSE Num(x.v - y.v)
NumNeg(x) == IF x.nan THEN NaN ELSE Num(0 - x.v)

\* new Date(ms) and Date.prototype.getTime
DateOf(t) == [time |-> Num(t)]
InvalidDate == [time |-> NaN]
getTime(d) == d.time

\* Date.prototype.toJSON as JSON.stringify applies it: an ISO-8601 string, or
\* null for an Invalid Date
DateToJSON(d) == IF d.time.nan THEN [json |-> "null", ms |-> 0]
                 ELSE [json |-> "string", ms |-> d.time.v]
\* new Date(x) for x read back from JSON: an ISO string parses to its instant,
\* null converts to the number 0 (the epoch), and a string that is no date
\* gives an Invalid Date
DateFromJSON(j) == IF j.json = "null" THEN DateOf(0)
                   ELSE IF j.json = "string" THEN DateOf(j.ms)
                   ELSE InvalidDate

(***************************************************************************)
(* Documents                                                               *)
(***************************************************************************)
IDs == {"a", "b"}
Titles == <<"Alpha", "Beta">>
Listeners == {"L1", "L2"}
SortFields == {"Title", "Version", "CreatedAt"}
SortOrders == {"asc", "desc"}
ViewModes == {"list", "grid"}

NumVersion(n) == [kind |-> "number", parts |-> <<n>>]
SemVersion(p) == [kind |-> "string", parts |-> p]

Doc(id, title, version, t) ==
  [ID |-> id, Title |-> title, Contributors |-> <<>>, Version |-> version,
   Attachments |-> <<>>, CreatedAt |-> DateOf(t), UpdatedAt |-> DateOf(t)]

\* the documents that fetch, user creation and the realtime channel hand in
NewDocs == { Doc("a", "Beta", NumVersion(1), 2),
             Doc("b", "Alpha", NumVersion(2), 1) }

(***************************************************************************)
(* Persistence Gateway: saveDocuments / loadDocuments over localStorage    *)
(***************************************************************************)
NoItem == [kind |-> "absent", docs |-> <<>>]     \* getItem returns null
Corrupt == [kind |-> "corrupt", docs |-> <<>>]   \* a payload JSON.parse rejects
Json(docs) == [kind |-> "json", docs |-> docs]

\* JSON.stringify of one Document: the Dates become ISO strings (or null)
StringifyDoc(d) ==
  [d EXCEPT !.CreatedAt = DateToJSON(@), !.UpdatedAt = DateToJSON(@)]

parseDocumentDates(j) ==
  [j EXCEPT !.CreatedAt = DateFromJSON(@), !.UpdatedAt = DateFromJSON(@)]

\* a saveDocuments that adds the documents to the snapshot that is there
saveDocuments_appends(item, docs, setItemOk) ==
  IF setItemOk THEN Json(item.docs \o [i \in DOMAIN docs |-> StringifyDoc(docs[i])])
  ELSE item

\* the item saveDocuments leaves in localStorage; setItemOk = FALSE when
\* JSON.stringify or setItem throws (quota), which the catch absorbs
saveDocuments(item, docs, setItemOk) ==
  IF setItemOk THEN Json([i \in DOMAIN docs |-> StringifyDoc(docs[i])]) ELSE item

loadDocuments(item) ==
  IF item.kind = "absent" THEN <<>>
  ELSE IF item.kind = "corrupt" THEN <<>>
  ELSE [i \in DOMAIN item.docs |-> parseDocumentDates(item.docs[i])]

\* a loadDocuments whose catch logs nothing
loadFailure_silent(item) == FALSE

\* loadDocuments logs 'Failed to load documents:' in its catch, which is where
\* JSON.parse throws; an absent item returns before the parse
loadFailure(item) == item.kind = "corrupt"

(***************************************************************************)
(* Store.sortDocuments and Store.compareVersions                           *)
(***************************************************************************)
RECURSIVE IndexOf(_, _, _)
IndexOf(s, x, i) == IF i > Len(s) THEN 0 ELSE IF s[i] = x THEN i ELSE IndexOf(s, x, i + 1)

\* String.prototype.localeCompare on the titles of the model, whose collation
\* order is their order in Titles
localeCompare(a, b) ==
  LET ia == IndexOf(Titles, a, 1)
      ib == IndexOf(Titles, b, 1)
  IN  Num(IF ia < ib THEN 0 - 1 ELSE IF ia > ib THEN 1 ELSE 0)

\* String(v).includes('.')
HasDot(v) == v.kind = "string" /\ Len(v.parts) > 1

\* Number(v) for the versions of the model: a number, a string of digits, a
\* decimal whose fraction is 0 ("1.0" is 1; the model has no other decimal),
\* or a dotted string with three or more components (NaN)
Number(v) ==
  IF Len(v.parts) = 1 THEN Num(v.parts[1])
  ELSE IF Len(v.parts) = 2 /\ v.parts[2] = 0 THEN Num(v.parts[1])
  ELSE NaN

PartAt(p, i) == IF i <= Len(p) THEN p[i] ELSE 0

RECURSIVE PartsDiff(_, _, _)
PartsDiff(ap, bp, i) ==
  IF i > Len(ap) /\ i > Len(bp) THEN Num(0)
  ELSE IF PartAt(ap, i) # PartAt(bp, i) THEN Num(PartAt(ap, i) - PartAt(bp, i))
  ELSE PartsDiff(ap, bp, i + 1)

\* a compareVersions that looks at the first component only
compareVersions_firstPart(a, b) ==
  IF HasDot(a) /\ HasDot(b) THEN Num(PartAt(a.parts, 1) - PartAt(b.parts, 1))
  ELSE NumSub(Number(a), Number(b))

\* a compareVersions whose fallback reads a version as parseFloat does: the
\* number its text starts with
compareVersions_parseFloat(a, b) ==
  IF HasDot(a) /\ HasDot(b) THEN PartsDiff(a.parts, b.parts, 1)
  ELSE NumSub(Num(PartAt(a.parts, 1)), Num(PartAt(b.parts, 1)))

\* compareVersions(a, b): two dotted strings are split and compared component
\* by component (the components of the model are decimal numerals, which
\* parseInt reads as their value); otherwise the difference of Number(a) and
\* Number(b)
compareVersions(a, b) ==
  IF HasDot(a) /\ HasDot(b) THEN PartsDiff(a.parts, b.parts, 1)
  ELSE NumSub(Number(a), Number(b))

\* the comparator handed to Array.prototype.sort; w is the Store
\* its switch on the sort field
comparison(w, a, b) ==
  IF w.sortField = "Title" THEN localeCompare(a.Title, b.Title)
  ELSE IF w.sortField = "Version" THEN compareVersions(a.Version, b.Version)
  ELSE NumSub(getTime(a.CreatedAt), getTime(b.CreatedAt))

\* its return: sortOrder === 'asc' ? comparison : -comparison
directed(w, c) == IF w.sortOrder = "asc" THEN c ELSE NumNeg(c)

Comparator(w, ra, rb) == directed(w, comparison(w, w.heap[ra], w.heap[rb]))

\* Array.prototype.sort reads a NaN from the comparator as +0
ToOrder(c) == IF c.nan THEN 0 ELSE c.v

Order(w, ra, rb) == ToOrder(Comparator(w, ra, rb))

Reverse(s) == [i \in 1..Len(s) |-> s[Len(s) + 1 - i]]

\* Array.prototype.sort on a short array (V8: the initial run, then binary
\* insertion); indices are 0-based as in the engine
RECURSIVE CountRun(_, _, _, _)
CountRun(w, s, idx, desc) ==
  IF idx > Len(s) THEN Len(s)
  ELSE IF desc = (Order(w, s[idx], s[idx - 1]) >= 0) THEN idx - 1
  ELSE CountRun(w, s, idx + 1, desc)

RECURSIVE BinarySearch(_, _, _, _, _)
BinarySearch(w, s, pivot, left, right) ==
  IF left < right
  THEN LET mid == left + ((right - left) \div 2)
       IN  IF Order(w, pivot, s[mid + 1]) < 0
           THEN BinarySearch(w, s, pivot, left, mid)
           ELSE BinarySearch(w, s, pivot, mid + 1, right)
  ELSE left

\* the element at index start moves to index pos
Moved(s, start, pos) ==
  SubSeq(s, 1, pos) \o <<s[start + 1]>> \o SubSeq(s, pos + 1, start)
  \o SubSeq(s, start + 2, Len(s))

RECURSIVE BinaryInsertionSort(_, _, _)
BinaryInsertionSort(w, s, start) ==
  IF start >= Len(s) THEN s
  ELSE BinaryInsertionSort(w, Moved(s, start, BinarySearch(w, s, s[start + 1], 0, start)),
                           start + 1)

\* a descending initial run of length run is reversed in place
MakeAscending(s, desc, run) ==
  IF desc THEN Reverse(SubSeq(s, 1, run)) \o SubSeq(s, run + 1, Len(s)) ELSE s

SortFromRun(w, s, desc, run) == BinaryInsertionSort(w, MakeAscending(s, desc, run), run)

SortRuns(w, s, desc) == SortFromRun(w, s, desc, CountRun(w, s, 3, desc))

sortDocuments(w, docs) ==
  IF Len(docs) < 2 THEN docs
  ELSE SortRuns(w, docs, Order(w, docs[2], docs[1]) < 0)

(***************************************************************************)
(* The Store.  Its methods are functions of the Store object w (a record   *)
(* of its fields, the heap and localStorage).  w.trace lists the effects   *)
(* of the running call, w.invoked the listeners it invoked, in order, and  *)
(* w.seen what a listener read when it ran.                                *)
(***************************************************************************)
NotSeen == [docs |-> <<>>, stored |-> NoItem]

World ==
  [instance |-> instance, heap |-> heap, documents |-> documents,
   documentMap |-> documentMap, listeners |-> listeners, sortField |-> sortField,
   sortOrder |-> sortOrder, viewMode |-> viewMode, storage |-> storage,
   created |-> created, loadCalls |-> loadCalls,
   trace |-> <<>>, invoked |-> <<>>, seen |-> NotSeen,
   rendered |-> <<>>, shown |-> <<>>]

Deref(w, refs) == [i \in DOMAIN refs |-> w.heap[refs[i]]]

\* a getDocuments that skips the copy: sorts and returns Store.documents itself
getDocuments_aliased(w) == [fresh |-> FALSE, items |-> sortDocuments(w, w.documents)]

\* getDocuments(): the spread makes a fresh array, which sort orders in place
getDocuments(w) == [fresh |-> TRUE, items |-> sortDocuments(w, w.documents)]

\* getSortField(), getSortOrder(), getViewMode()
getSortField(w) == w.sortField

getSortOrder(w) == w.sortOrder

getViewMode(w) == w.viewMode

\* the listener the DocumentController subscribes: () => this.updateView()
UpdateViewListener == "updateView"

\* a DocumentController.updateView that renders the sort field and the view
\* mode the Store is constructed with
renderView_cached(w, docs) ==
  [w EXCEPT !.rendered = Append(@, [documents |-> docs,
                                    sortField |-> "CreatedAt",
                                    viewMode |-> "list"])]

\* DocumentController.updateView after its getDocuments() call returned docs:
\* it reads the sort field and the view mode and hands the three to
\* DocumentView.render; w.rendered lists the render calls of the running call
renderView(w, docs) ==
  [w EXCEPT !.rendered = Append(@, [documents |-> docs,
                                    sortField |-> getSortField(w),
                                    viewMode |-> getViewMode(w)])]

\* DocumentController.updateView
updateView(w) == renderView(w, getDocuments(w).items)

\* a notify that stops one listener short
notify_dropsLast(w) ==
  [w EXCEPT !.invoked = @ \o SubSeq(w.listeners, 1, Len(w.listeners) - 1),
            !.seen = [docs |-> sortDocuments(w, w.documents), stored |-> w.storage],
            !.trace = Append(@, "notify")]

\* notify(): Set.forEach calls every listener once, in insertion order; a
\* listener reads the Store and localStorage as they are at that moment (docs
\* is what its getDocuments() call returns), and the DocumentController's
\* listener runs updateView
notify(w) ==
  LET docs == getDocuments(w).items
  IN  [w EXCEPT !.invoked = @ \o w.listeners,
                !.seen = [docs |-> docs, stored |-> w.storage],
                !.trace = Append(@, "notify"),
                !.rendered = IF UpdateViewListener \in Range(w.listeners)
                             THEN renderView(w, docs).rendered ELSE @]

\* a Store constructor that takes the view mode of the Store before it
StoreConstructor_keepsViewMode(w) ==
  LET loaded == loadDocuments(w.storage)
  IN  [w EXCEPT !.instance = w.created + 1,
                !.created = @ + 1,
                !.loadCalls = @ + 1,
                !.heap = loaded,
                !.documents = [i \in DOMAIN loaded |-> i],
                !.documentMap = {},
                !.listeners = <<>>,
                !.sortField = "CreatedAt",
                !.sortOrder = "desc",
                !.trace = Append(@, "load")
                           \o (IF loadFailure(w.storage) THEN <<"error">> ELSE <<>>)]

\* the Store constructor: field initialisers, then documents = loadDocuments()
StoreConstructor(w) ==
  LET loaded == loadDocuments(w.storage)
  IN  [w EXCEPT !.instance = w.created + 1,
                !.created = @ + 1,
                !.loadCalls = @ + 1,
                !.heap = loaded,
                !.documents = [i \in DOMAIN loaded |-> i],
                !.documentMap = {},
                !.listeners = <<>>,
                !.sortField = "CreatedAt",
                !.sortOrder = "desc",
                !.viewMode = "list",
                !.trace = Append(@, "load")
                           \o (IF loadFailure(w.storage) THEN <<"error">> ELSE <<>>)]

\* a getInstance without the instance check
getInstance_alwaysConstructs(w) == StoreConstructor(w)

getInstance(w) == IF w.instance = 0 THEN StoreConstructor(w) ELSE w

\* a subscribe that keeps its listeners in an array
subscribe_pushes(w, l) == [w EXCEPT !.listeners = Append(@, l)]

\* subscribe(listener): Set.add
subscribe(w, l) ==
  IF l \in Range(w.listeners) THEN w ELSE [w EXCEPT !.listeners = Append(@, l)]

\* an unsubscribe handle that removes the listener subscribed last
unsubscribe_removesLast(w, l) ==
  [w EXCEPT !.listeners = SubSeq(@, 1, Len(@) - 1)]

\* the function subscribe returns: Set.delete
unsubscribe(w, l) ==
  [w EXCEPT !.listeners = SelectSeq(@, LAMBDA x : x # l)]

\* an addDocument that notifies before it appends and persists
addDocument_notifyFirst(w, r, setItemOk) ==
  IF w.heap[r].ID \in w.documentMap
  THEN [w EXCEPT !.trace = Append(@, "warn")]
  ELSE LET told == notify(w)
           pushed == [told EXCEPT !.documents = Append(@, r),
                                  !.documentMap = @ \cup {w.heap[r].ID},
                                  !.trace = Append(@, "push")]
       IN  [pushed EXCEPT
              !.storage = saveDocuments(@, Deref(pushed, pushed.documents), setItemOk),
              !.trace = Append(@, "save") \o (IF setItemOk THEN <<>> ELSE <<"error">>)]

\* an addDocument that persists the collection before it appends
addDocument_saveFirst(w, r, setItemOk) ==
  IF w.heap[r].ID \in w.documentMap
  THEN [w EXCEPT !.trace = Append(@, "warn")]
  ELSE LET saved == [w EXCEPT
                       !.storage = saveDocuments(@, Deref(w, w.documents), setItemOk),
                       !.trace = Append(@, "save")
                                  \o (IF setItemOk THEN <<>> ELSE <<"error">>)]
           pushed == [saved EXCEPT !.documents = Append(@, r),
                                   !.documentMap = @ \cup {w.heap[r].ID},
                                   !.trace = Append(@, "push")]
       IN  notify(pushed)

\* an addDocument that gives up when the write fails
addDocument_failsWithWrite(w, r, setItemOk) ==
  IF w.heap[r].ID \in w.documentMap
  THEN [w EXCEPT !.trace = Append(@, "warn")]
  ELSE IF ~setItemOk THEN [w EXCEPT !.trace = @ \o << "save", "error" >>]
  ELSE notify([w EXCEPT !.documents = Append(@, r),
                        !.documentMap = @ \cup {w.heap[r].ID},
                        !.storage = saveDocuments(@, Deref(w, Append(w.documents, r)), TRUE),
                        !.trace = @ \o << "push", "save" >>])

\* addDocument(document): r is the reference to the caller's object
addDocument(w, r, setItemOk) ==
  IF w.heap[r].ID \in w.documentMap
  THEN [w EXCEPT !.trace = Append(@, "warn")]
  ELSE LET pushed == [w EXCEPT !.documents = Append(@, r),
                               !.documentMap = @ \cup {w.heap[r].ID},
                               !.trace = Append(@, "push")]
           saved == [pushed EXCEPT
                       !.storage = saveDocuments(@, Deref(pushed, pushed.documents),
                                                 setItemOk),
                       !.trace = Append(@, "save")
                                  \o (IF setItemOk THEN <<>> ELSE <<"error">>)]
       IN  notify(saved)

\* a setSortField that starts the new field in ascending order
setSortField_resetsOrder(w, field) ==
  notify([w EXCEPT !.sortField = field, !.sortOrder = "asc"])

setSortField(w, field) == notify([w EXCEPT !.sortField = field])

setSortOrder(w, order) == notify([w EXCEPT !.sortOrder = order])

\* a setViewMode that returns early when the mode is the current one
setViewMode_shortCircuit(w, mode) ==
  IF mode = w.viewMode THEN w ELSE notify([w EXCEPT !.viewMode = mode])

setViewMode(w, mode) == notify([w EXCEPT !.viewMode = mode])

(***************************************************************************)
(* Actions of the Store: one per call a client can make                    *)
(***************************************************************************)
Zero == [l \in Listeners |-> 0]

Count(s, x) == Cardinality({ i \in DOMAIN s : s[i] = x })

\* the record of a call: arg is its argument, was tells whether the argument
\* was already there (the ID in the collection, the value in the field, the
\* listener in the set, the handle in the client's hands), ret is the handle
\* it returned
Call(op, arg, ref, was, w, ret) ==
  [op |-> op, arg |-> arg, ref |-> ref, was |-> was, trace |-> w.trace,
   invoked |-> w.invoked, seen |-> w.seen, ret |-> ret, before |-> <<>>,
   rendered |-> w.rendered, shown |-> w.shown]

\* the record of a step of the client; before is what getDocuments() would
\* have returned just before it (the documents, by value)
ClientStep(op, arg, ref, was, ret, before) ==
  [op |-> op, arg |-> arg, ref |-> ref, was |-> was, trace |-> <<>>,
   invoked |-> <<>>, seen |-> NotSeen, ret |-> ret, before |-> before,
   rendered |-> <<>>, shown |-> <<>>]

\* the Store's fields, the heap and localStorage as the call leaves them
Commit(w) ==
  /\ instance' = w.instance
  /\ heap' = w.heap
  /\ documents' = w.documents
  /\ documentMap' = w.documentMap
  /\ listeners' = w.listeners
  /\ sortField' = w.sortField
  /\ sortOrder' = w.sortOrder
  /\ viewMode' = w.viewMode
  /\ storage' = w.storage
  /\ created' = w.created
  /\ loadCalls' = w.loadCalls

\* the account of invocations: a mutating call owes every subscribed listener
\* one invocation, and each invocation made by the call pays one back
Account(w, mutating) ==
  owed' = [l \in Listeners |->
             owed[l] + (IF mutating /\ l \in Range(subscribed) THEN 1 ELSE 0)
                     - Count(w.invoked, l)]

HasID(id) == \E i \in DOMAIN documents : heap[documents[i]].ID = id

GetInstance ==
  LET w == getInstance(World)
  IN  /\ Commit(w)
      /\ lastCall' = Call("getInstance", "", 0, instance # 0, w, w.instance)
      /\ Account(w, FALSE)
      /\ UNCHANGED << arrays, held, clientRefs, nClientMut, subscribed, gone >>

Subscribe(l) ==
  /\ instance # 0
  /\ LET w == subscribe(World, l)
     IN  /\ Commit(w)
         /\ lastCall' = Call("subscribe", l, 0, l \in Range(subscribed), w, 0)
         /\ Account(w, FALSE)
  /\ subscribed' = IF l \in Range(subscribed) THEN subscribed ELSE Append(subscribed, l)
  /\ gone' = gone \ {l}
  /\ UNCHANGED << arrays, held, clientRefs, nClientMut >>

Unsubscribe(l) ==
  /\ instance # 0
  /\ l \in Range(subscribed)
  /\ LET w == unsubscribe(World, l)
     IN  /\ Commit(w)
         /\ lastCall' = Call("unsubscribe", l, 0, TRUE, w, 0)
         /\ owed' = [owed EXCEPT ![l] = 0]
  /\ subscribed' = SelectSeq(subscribed, LAMBDA x : x # l)
  /\ gone' = gone \cup {l}
  /\ UNCHANGED << arrays, held, clientRefs, nClientMut >>

AddDocument(doc, setItemOk) ==
  /\ instance # 0
  /\ Len(heap) < MaxHeap
  /\ LET r == Len(heap) + 1
         w == addDocument([World EXCEPT !.heap = Append(@, doc)], r, setItemOk)
         stored == r \in Range(w.documents)
     IN  /\ Commit([w EXCEPT !.heap = IF stored THEN @ ELSE heap])
         /\ lastCall' = Call("addDocument", doc.ID, r, HasID(doc.ID), w, 0)
         /\ clientRefs' = IF stored THEN clientRefs \cup {r} ELSE clientRefs
         /\ Account(w, stored)
  /\ UNCHANGED << arrays, held, nClientMut, subscribed, gone >>

SetSortField(field) ==
  /\ instance # 0
  /\ LET w == setSortField(World, field)
     IN  /\ Commit(w)
         /\ lastCall' = Call("setSortField", field, 0, field = sortField, w, 0)
         /\ Account(w, TRUE)
  /\ UNCHANGED << arrays, held, clientRefs, nClientMut, subscribed, gone >>

SetSortOrder(order) ==
  /\ instance # 0
  /\ LET w == setSortOrder(World, order)
     IN  /\ Commit(w)
         /\ lastCall' = Call("setSortOrder", order, 0, order = sortOrder, w, 0)
         /\ Account(w, TRUE)
  /\ UNCHANGED << arrays, held, clientRefs, nClientMut, subscribed, gone >>

SetViewMode(mode) ==
  /\ instance # 0
  /\ LET w == setViewMode(World, mode)
     IN  /\ Commit(w)
         /\ lastCall' = Call("setViewMode", mode, 0, mode = viewMode, w, 0)
         /\ Account(w, TRUE)
  /\ UNCHANGED << arrays, held, clientRefs, nClientMut, subscribed, gone >>

\* a reader calls getSortField(), getSortOrder() and getViewMode()
ReadSettings ==
  /\ instance # 0
  /\ Commit(World)
  /\ lastCall' = [ClientStep("readSettings", "", 0, FALSE, 0, <<>>)
                    EXCEPT !.ret = [sortField |-> getSortField(World),
                                    sortOrder |-> getSortOrder(World),
                                    viewMode |-> getViewMode(World)]]
  /\ UNCHANGED << arrays, held, clientRefs, nClientMut, subscribed, owed, gone >>

\* a reader calls getDocuments() and looks at the array without keeping it
ReadDocuments ==
  /\ instance # 0
  /\ LET res == getDocuments(World)
     IN  /\ Commit([World EXCEPT !.documents = IF res.fresh THEN @ ELSE res.items])
         /\ lastCall' = [ClientStep("readDocuments", "", 0, FALSE, 0, <<>>)
                           EXCEPT !.seen = [docs |-> res.items, stored |-> storage]]
  /\ UNCHANGED << arrays, held, clientRefs, nClientMut, subscribed, owed, gone >>

\* the client calls getDocuments() and keeps the array it is given
GetDocuments ==
  /\ instance # 0
  /\ Len(arrays) < MaxArrays
  /\ LET res == getDocuments(World)
         handle == IF res.fresh THEN Len(arrays) + 1 ELSE 0
     IN  /\ Commit([World EXCEPT !.documents = IF res.fresh THEN @ ELSE res.items])
         /\ arrays' = IF res.fresh THEN Append(arrays, res.items) ELSE arrays
         /\ held' = held \cup {handle}
         /\ clientRefs' = clientRefs \cup Range(res.items)
         /\ lastCall' = ClientStep("getDocuments", "", 0, handle \in held, handle, <<>>)
  /\ UNCHANGED << nClientMut, subscribed, owed, gone >>

\* the client changes an array it was given: pop, reverse, or push of an
\* object it holds (here the array's first element)
ArrayOps == {"pop", "reverse", "push"}

ApplyArrayOp(s, op, r) ==
  IF op = "pop" THEN SubSeq(s, 1, Len(s) - 1)
  ELSE IF op = "reverse" THEN Reverse(s)
  ELSE Append(s, r)

MutateArray(h, op) ==
  /\ nClientMut < MaxClientMut
  /\ h \in held
  /\ LET s == IF h = 0 THEN documents ELSE arrays[h]
     IN  /\ Len(s) > 0
         /\ documents' = IF h = 0 THEN ApplyArrayOp(s, op, s[1]) ELSE documents
         /\ arrays' = IF h = 0 THEN arrays
                      ELSE [arrays EXCEPT ![h] = ApplyArrayOp(s, op, s[1])]
  /\ nClientMut' = nClientMut + 1
  /\ lastCall' = ClientStep("mutateArray", op, 0, FALSE, h,
                            Deref(World, getDocuments(World).items))
  /\ UNCHANGED << instance, heap, documentMap, listeners, sortField, sortOrder,
                  viewMode, storage, held, clientRefs, created, loadCalls,
                  subscribed, owed, gone >>

\* the client assigns a field of a Document object it holds a reference to
ElementFields == {"ID", "Title", "CreatedAt"}

FieldValues(field) ==
  IF field = "ID" THEN IDs
  ELSE IF field = "Title" THEN Range(Titles)
  ELSE {DateOf(1), DateOf(2)}

MutateElement(r, field, val) ==
  /\ nClientMut < MaxClientMut
  /\ r \in clientRefs
  /\ heap[r][field] # val
  /\ heap' = [heap EXCEPT ![r][field] = val]
  /\ nClientMut' = nClientMut + 1
  /\ lastCall' = ClientStep("mutateElement", field, r, FALSE, 0,
                            Deref(World, getDocuments(World).items))
  /\ UNCHANGED << instance, documents, documentMap, listeners, sortField, sortOrder,
                  viewMode, storage, arrays, held, clientRefs, created, loadCalls,
                  subscribed, owed, gone >>


(***************************************************************************)
(* WebSocketService.  Its methods and handlers are functions of the        *)
(* service object v: its fields, the sockets it constructed, the pending   *)
(* reconnect timers and the log of what happened.                          *)
(***************************************************************************)
maxReconnectAttempts == 5

Service ==
  [ws |-> ws, socks |-> socks, reconnectAttempts |-> reconnectAttempts,
   reconnectTimeout |-> reconnectTimeout, timers |-> timers, nTimers |-> nTimers,
   deferred |-> deferred, handled |-> handled, wire |-> wire,
   log |-> wsLog, arrived |-> arrived]

\* an attemptReconnect that compares with <=
attemptReconnect_offByOne(v) ==
  IF v.reconnectAttempts <= maxReconnectAttempts
  THEN [v EXCEPT !.reconnectAttempts = @ + 1,
                 !.nTimers = @ + 1,
                 !.reconnectTimeout = v.nTimers + 1,
                 !.timers = @ \cup {v.nTimers + 1},
                 !.log.scheduled = @ + 1]
  ELSE [v EXCEPT !.log.unscheduled = @ + 1]

\* an attemptReconnect that has no budget
attemptReconnect_unbounded(v) ==
  [v EXCEPT !.reconnectAttempts = IF @ < maxReconnectAttempts THEN @ + 1 ELSE @,
            !.nTimers = @ + 1,
            !.reconnectTimeout = v.nTimers + 1,
            !.timers = @ \cup {v.nTimers + 1},
            !.log.scheduled = @ + 1]

\* an attemptReconnect that starts a new budget when one is spent
attemptReconnect_startsOver(v) ==
  IF v.reconnectAttempts < maxReconnectAttempts
  THEN [v EXCEPT !.reconnectAttempts = @ + 1,
                 !.nTimers = @ + 1,
                 !.reconnectTimeout = v.nTimers + 1,
                 !.timers = @ \cup {v.nTimers + 1},
                 !.log.scheduled = @ + 1]
  ELSE [v EXCEPT !.reconnectAttempts = 0, !.log.unscheduled = @ + 1]

\* attemptReconnect(): below the budget, count the attempt and set the timer
\* that will call connect(); at the budget, only log
attemptReconnect(v) ==
  IF v.reconnectAttempts < maxReconnectAttempts
  THEN [v EXCEPT !.reconnectAttempts = @ + 1,
                 !.nTimers = @ + 1,
                 !.reconnectTimeout = v.nTimers + 1,
                 !.timers = @ \cup {v.nTimers + 1},
                 !.log.scheduled = @ + 1]
  ELSE [v EXCEPT !.log.unscheduled = @ + 1]

\* a connect() whose catch only logs
connect_givesUp(v, ctorOk) ==
  IF ctorOk
  THEN [v EXCEPT !.ws = Len(v.socks) + 1, !.socks = Append(@, "CONNECTING")]
  ELSE [v EXCEPT !.log.throws = @ + 1]

\* connect(): construct the socket and attach the four handlers; when the
\* constructor throws, this.ws keeps its value and the catch calls attemptReconnect
connect(v, ctorOk) ==
  IF ctorOk
  THEN [v EXCEPT !.ws = Len(v.socks) + 1, !.socks = Append(@, "CONNECTING")]
  ELSE attemptReconnect([v EXCEPT !.log.throws = @ + 1])

\* ws.onopen
onopen_keepsCounter(v) == [v EXCEPT !.log.opens = @ + 1]

onopen(v) == [v EXCEPT !.reconnectAttempts = 0, !.log.opens = @ + 1]

\* an onerror that does what onclose does
onerror_reconnects(v) == attemptReconnect(v)

\* ws.onerror: a warning is logged
onerror(v) == v

\* ws.onclose
onclose(v) == attemptReconnect([v EXCEPT !.log.closes = @ + 1])

\* WebSocket.close(): a socket that is connecting or open starts closing
CloseSocket(state) == IF state \in {"CONNECTING", "OPEN"} THEN "CLOSING" ELSE state

\* disconnect()
disconnect(v) ==
  LET cleared == IF v.reconnectTimeout # 0
                 THEN [v EXCEPT !.timers = @ \ {v.reconnectTimeout},
                                !.reconnectTimeout = 0]
                 ELSE v
      closed == IF cleared.ws # 0
                THEN [cleared EXCEPT !.socks[cleared.ws] = CloseSocket(@), !.ws = 0]
                ELSE cleared
  IN  [closed EXCEPT !.reconnectAttempts = 0, !.log.disconnects = @ + 1]

(***************************************************************************)
(* Frames.  An inbound frame is a text; JSON.parse accepts the text of a   *)
(* notification and throws on a text that is not JSON and on the empty     *)
(* text.  An outbound payload is the text JSON.stringify makes of a value. *)
(***************************************************************************)
Notifications == { [DocumentID |-> id] : id \in IDs }

JSONstringify(value) == [json |-> "object", value |-> value]
InvalidJson == [json |-> "invalid-json-{{", value |-> [DocumentID |-> ""]]
EmptyData == [json |-> "", value |-> [DocumentID |-> ""]]

Frames == { JSONstringify(n) : n \in Notifications } \cup {InvalidJson, EmptyData}

JSONparse(text) ==
  IF text.json = "object" THEN [ok |-> TRUE, value |-> text.value]
  ELSE [ok |-> FALSE, value |-> text.value]

Outbound == { [message |-> "hello"] }

\* an onmessage that hands the notification to two timers
onmessage_twice(v, data) ==
  LET parsed == JSONparse(data)
      w == [v EXCEPT !.log.frames = @ + 1]
  IN  IF parsed.ok
      THEN [w EXCEPT !.deferred = @ \o <<parsed.value, parsed.value>>,
                     !.arrived = Append(@, parsed.value)]
      ELSE w

\* an onmessage whose catch gives the connection up
onmessage_reconnects(v, data) ==
  LET parsed == JSONparse(data)
      w == [v EXCEPT !.log.frames = @ + 1]
  IN  IF parsed.ok
      THEN [w EXCEPT !.deferred = Append(@, parsed.value),
                     !.arrived = Append(@, parsed.value)]
      ELSE attemptReconnect(w)

\* ws.onmessage: parse event.data; hand the notification to a timer of delay
\* 0; a text that JSON.parse rejects is logged by the catch
onmessage(v, data) ==
  LET parsed == JSONparse(data)
      w == [v EXCEPT !.log.frames = @ + 1]
  IN  IF parsed.ok
      THEN [w EXCEPT !.deferred = Append(@, parsed.value),
                     !.arrived = Append(@, parsed.value)]
      ELSE w

\* the callback of setTimeout(.., 0): timers of equal delay run in the order
\* they were set
onTimeout(v) ==
  [v EXCEPT !.handled = Append(@, Head(v.deferred)), !.deferred = Tail(@)]

\* a send that leaves the readyState out of its test
send_anyState(v, data) ==
  LET w == [v EXCEPT !.log.sends = @ + 1]
  IN  IF w.ws # 0
      THEN [w EXCEPT !.wire = Append(@, <<w.ws, JSONstringify(data)>>)]
      ELSE w

\* send(data)
send(v, data) ==
  LET w == [v EXCEPT !.log.sends = @ + 1]
  IN  IF w.ws # 0 /\ w.socks[w.ws] = "OPEN"
      THEN [w EXCEPT !.wire = Append(@, <<w.ws, JSONstringify(data)>>)]
      ELSE w

(***************************************************************************)
(* Actions of the WebSocketService: the calls of its owner, the events of  *)
(* its sockets and the firing of its timers                                *)
(***************************************************************************)
WSCommit(v) ==
  /\ ws' = v.ws
  /\ socks' = v.socks
  /\ reconnectAttempts' = v.reconnectAttempts
  /\ reconnectTimeout' = v.reconnectTimeout
  /\ timers' = v.timers
  /\ nTimers' = v.nTimers
  /\ deferred' = v.deferred
  /\ handled' = v.handled
  /\ wire' = v.wire
  /\ wsLog' = v.log
  /\ arrived' = v.arrived

\* what attemptReconnect did during a step that led to v, if it ran
Retry(v) ==
  IF v.log.scheduled > wsLog.scheduled THEN "scheduled"
  ELSE IF v.log.unscheduled > wsLog.unscheduled THEN "offline"
  ELSE "none"

\* the connection state of v is the one before the step
Untouched(v) ==
  /\ v.ws = ws /\ v.socks = socks /\ v.reconnectAttempts = reconnectAttempts
  /\ v.reconnectTimeout = reconnectTimeout /\ v.timers = timers

ChannelOpen == ws # 0 /\ socks[ws] = "OPEN"

\* the data of a call or an event that has none
NoData == [json |-> "none", value |-> [DocumentID |-> ""]]

\* a call or an event of the service: op with argument arg, leading to v
WSStep(op, arg, data, v) ==
  /\ WSCommit(v)
  /\ wsLast' = [op |-> op, data |-> data, retry |-> Retry(v),
                late |-> (op = "timer" /\ arg \in doomed),
                open |-> (op = "send" /\ ChannelOpen),
                was |-> reconnectAttempts,
                sent |-> Len(v.wire) - Len(wire),
                queued |-> Len(v.deferred) - Len(deferred),
                quiet |-> Untouched(v)]
  /\ idle' = IF op = "disconnect" THEN TRUE
             ELSE IF op = "connect" THEN FALSE ELSE idle
  /\ doomed' = IF op = "disconnect" THEN (doomed \cup timers) \cap v.timers
               ELSE doomed \cap v.timers
  /\ abandoned' =
       IF Retry(v) = "offline" THEN "yes"
       ELSE IF abandoned = "no" THEN "no"
       ELSE IF op = "disconnect" THEN "disconnected"
       ELSE IF op = "connect" /\ abandoned = "disconnected" THEN "no"
       ELSE IF op = "open" /\ abandoned = "yes" THEN "opened"
       ELSE abandoned

CtorAllowed(ctorOk) ==
  IF ctorOk THEN Len(socks) < MaxSockets ELSE wsLog.throws < MaxThrows

\* the owner calls connect()
Connect(ctorOk) ==
  /\ wsLog.connects < MaxConnects
  /\ CtorAllowed(ctorOk)
  /\ WSStep("connect", 0, NoData, connect([Service EXCEPT !.log.connects = @ + 1], ctorOk))

\* the handshake of socket id succeeds: the open event
SocketOpen(id) ==
  /\ socks[id] = "CONNECTING"
  /\ wsLog.opens < MaxOpens
  /\ WSStep("open", id, NoData, onopen([Service EXCEPT !.socks[id] = "OPEN"]))

\* an error event of socket id
SocketError(id) ==
  /\ socks[id] \in {"CONNECTING", "OPEN"}
  /\ WSStep("error", id, NoData, onerror(Service))

\* socket id is closed (failed handshake, closed by the peer, or close()
\* completed): the close event
SocketClose(id) ==
  /\ socks[id] # "CLOSED"
  /\ WSStep("close", id, NoData, onclose([Service EXCEPT !.socks[id] = "CLOSED"]))

\* the reconnect delay of timer t has elapsed: its callback calls connect()
TimerFires(t, ctorOk) ==
  /\ t \in timers
  /\ CtorAllowed(ctorOk)
  /\ WSStep("timer", t, NoData, connect([Service EXCEPT !.timers = @ \ {t}], ctorOk))

\* the owner calls disconnect()
Disconnect ==
  /\ wsLog.disconnects < MaxDisconnects
  /\ WSStep("disconnect", 0, NoData, disconnect(Service))

\* a frame arrives on socket id, which is open: the message event
SocketMessage(id, data) ==
  /\ socks[id] = "OPEN"
  /\ wsLog.frames < MaxFrames
  /\ WSStep("message", id, data, onmessage(Service, data))

\* the timer of the oldest deferred notification fires
Deliver ==
  /\ deferred # <<>>
  /\ WSStep("deliver", 0, NoData, onTimeout(Service))

\* the owner calls send(data)
Send(data) ==
  /\ wsLog.sends < MaxSends
  /\ WSStep("send", 0, JSONstringify(data), send(Service, data))

(***************************************************************************)
(* The snapshot an earlier session may have left in localStorage: nothing, *)
(* an unparsable payload, or what saveDocuments wrote for a collection     *)
(* with pairwise distinct IDs                                              *)
(***************************************************************************)
DistinctIDs(s) == \A i, j \in DOMAIN s : s[i].ID = s[j].ID => i = j

Collections(n) ==
  { s \in UNION { [1..k -> NewDocs] : k \in 0..n } : DistinctIDs(s) }

Snapshots ==
  {NoItem, Corrupt} \cup { saveDocuments(NoItem, s, TRUE) : s \in Collections(MaxStored) }

\* a process that has not touched the Store yet
StoreFresh ==
  /\ instance = 0 /\ heap = <<>> /\ documents = <<>> /\ documentMap = {}
  /\ listeners = <<>> /\ sortField = "CreatedAt" /\ sortOrder = "desc"
  /\ viewMode = "list" /\ arrays = <<>> /\ held = {} /\ clientRefs = {}
  /\ nClientMut = 0 /\ created = 0 /\ loadCalls = 0 /\ subscribed = <<>>
  /\ owed = Zero /\ gone = {}
  /\ lastCall = ClientStep("none", "", 0, FALSE, 0, <<>>)

StoreInit == StoreFresh /\ storage \in Snapshots

WSIdle ==
  /\ ws = 0 /\ socks = <<>> /\ reconnectAttempts = 0 /\ reconnectTimeout = 0
  /\ timers = {} /\ nTimers = 0
  /\ deferred = <<>> /\ handled = <<>> /\ wire = <<>> /\ arrived = <<>>
  /\ wsLog = [connects |-> 0, disconnects |-> 0, opens |-> 0, closes |-> 0,
              throws |-> 0, scheduled |-> 0, unscheduled |-> 0,
              frames |-> 0, sends |-> 0, fetches |-> 0, settled |-> 0]
  /\ wsLast = [op |-> "none", data |-> NoData, retry |-> "none",
               late |-> FALSE, open |-> FALSE, was |-> 0,
               sent |-> 0, queued |-> 0, quiet |-> TRUE]
  /\ idle = FALSE /\ doomed = {} /\ abandoned = "no"

Init == StoreInit /\ WSIdle

\* the Store, its subscribers and the Persistence Gateway
Next ==
  \/ GetInstance /\ UNCHANGED wsVars
  \/ (\E l \in Listeners : Subscribe(l)) /\ UNCHANGED wsVars
  \/ (\E l \in Listeners : Unsubscribe(l)) /\ UNCHANGED wsVars
  \/ (\E doc \in NewDocs, ok \in BOOLEAN : AddDocument(doc, ok)) /\ UNCHANGED wsVars
  \/ (\E f \in SortFields : SetSortField(f)) /\ UNCHANGED wsVars
  \/ (\E o \in SortOrders : SetSortOrder(o)) /\ UNCHANGED wsVars
  \/ (\E m \in ViewModes : SetViewMode(m)) /\ UNCHANGED wsVars
  \/ ReadDocuments /\ UNCHANGED wsVars
  \/ ReadSettings /\ UNCHANGED wsVars

Spec == Init /\ [][Next]_vars

\* the Store and a client that keeps and changes what getDocuments() returns
ClientNext ==
  \/ GetInstance /\ UNCHANGED wsVars
  \/ (\E doc \in NewDocs : AddDocument(doc, TRUE)) /\ UNCHANGED wsVars
  \/ (\E o \in SortOrders : SetSortOrder(o)) /\ UNCHANGED wsVars
  \/ GetDocuments /\ UNCHANGED wsVars
  \/ (\E h \in held, op \in ArrayOps : MutateArray(h, op)) /\ UNCHANGED wsVars
  \/ (\E r \in clientRefs, f \in ElementFields :
        \E v \in FieldValues(f) : MutateElement(r, f, v)) /\ UNCHANGED wsVars

\* the client's session starts with no snapshot or with a one-document one
ClientInit ==
  /\ StoreInit /\ WSIdle
  /\ storage \in {NoItem, saveDocuments(NoItem, <<Doc("b", "Alpha", NumVersion(2), 1)>>, TRUE)}

ClientSpec == ClientInit /\ [][ClientNext]_vars

(***************************************************************************)
(* Properties of the Store                                                 *)
(***************************************************************************)
NotifiedOnce(call) ==
  \A l \in Listeners :
    Count(call.invoked, l) = (IF l \in Range(subscribed) THEN 1 ELSE 0)

IsSetter(op) == op \in {"setSortField", "setSortOrder", "setViewMode"}

\* what getDocuments() returns now: the references, and the documents
DocsNow == getDocuments(World).items
DocValuesNow == Deref(World, DocsNow)

\* C1: no two documents of the collection share an ID, whatever was hydrated
\* and whatever addDocument calls followed
C1_NoDuplicateIDs ==
  \A i, j \in DOMAIN documents :
    heap[documents[i]].ID = heap[documents[j]].ID => i = j

\* C2: an addDocument whose ID is already in the collection only warns: it
\* appends nothing, does not save and notifies nobody
C2_DuplicateAddIsNoOp ==
  (lastCall.op = "addDocument" /\ lastCall.was) =>
     /\ lastCall.trace = <<"warn">>
     /\ lastCall.invoked = <<>>
     /\ lastCall.ref \notin Range(documents)

\* the effects of a call, the logged failures left out
Effects(call) == SelectSeq(call.trace, LAMBDA e : e # "error")

\* C3 as stated: an addDocument with a new ID appends, persists, notifies, in
\* that order; every subscriber runs once and, when it runs, finds the
\* document both in getDocuments() and in the persisted snapshot
C3_ListenerSeesPersisted ==
  (lastCall.op = "addDocument" /\ ~lastCall.was) =>
     /\ Effects(lastCall) = <<"push", "save", "notify">>
     /\ NotifiedOnce(lastCall)
     /\ lastCall.invoked # <<>> =>
          /\ lastCall.ref \in Range(lastCall.seen.docs)
          /\ \E i \in DOMAIN lastCall.seen.stored.docs :
               lastCall.seen.stored.docs[i] = StringifyDoc(heap[lastCall.ref])

\* C3 amended: append, persist, notify, in that order; every subscriber runs
\* once and finds the document in getDocuments(), and finds the whole
\* collection in the persisted snapshot unless the write failed (the failure
\* is logged and the snapshot is the one from before the call)
C3_AppendPersistNotify ==
  (lastCall.op = "addDocument" /\ ~lastCall.was) =>
     /\ Effects(lastCall) = <<"push", "save", "notify">>
     /\ NotifiedOnce(lastCall)
     /\ lastCall.ref \in Range(lastCall.seen.docs)
     /\ lastCall.ref = documents[Len(documents)]
     /\ lastCall.seen.stored = storage
     /\ "error" \notin Range(lastCall.trace) =>
          storage = Json([i \in DOMAIN documents |-> StringifyDoc(heap[documents[i]])])

C3_Witness ==
  /\ lastCall.op = "addDocument" /\ ~lastCall.was
  /\ Len(lastCall.invoked) = 2
  /\ Len(documents) = 2
  /\ "error" \notin Range(lastCall.trace)

\* C4: every getDocuments() returns an array that is neither Store.documents
\* nor an array returned before, and changing a returned array (length,
\* membership, order) changes nothing of what getDocuments() returns later
C4_ReturnedArrayIsFresh ==
  /\ lastCall.op = "getDocuments" =>
       /\ lastCall.ret # 0
       /\ ~lastCall.was
       /\ arrays[lastCall.ret] = DocsNow
  /\ lastCall.op = "mutateArray" =>
       /\ lastCall.ret # 0
       /\ DocValuesNow = lastCall.before

C4_Witness ==
  /\ lastCall.op = "mutateArray"
  /\ Len(arrays) = 2
  /\ Len(documents) >= 2
  /\ arrays[lastCall.ret] # DocsNow

\* C5: assigning a field of a document taken from a returned array, or of the
\* object that was passed to addDocument, changes nothing of what
\* getDocuments() returns (a stored document's ID and CreatedAt never change)
C5_ElementsAreNotShared ==
  lastCall.op = "mutateElement" => DocValuesNow = lastCall.before

\* C6: setSortField, setSortOrder and setViewMode store the value they are
\* given and notify every subscriber once, also when the value is the current one
C6_SettersAlwaysNotify ==
  IsSetter(lastCall.op) =>
     /\ lastCall.trace = <<"notify">>
     /\ NotifiedOnce(lastCall)
     /\ lastCall.op = "setSortField" => sortField = lastCall.arg
     /\ lastCall.op = "setSortOrder" => sortOrder = lastCall.arg
     /\ lastCall.op = "setViewMode" => viewMode = lastCall.arg

C6_Witness ==
  /\ lastCall.op = "setViewMode" /\ lastCall.was
  /\ Len(subscribed) = 2
  /\ Len(lastCall.invoked) = 2

\* C7: no notification is coalesced or dropped: a listener that is subscribed
\* has been invoked as many times as mutating calls were made since it
\* subscribed, and one notification invokes the listeners in subscription order
C7_OneNotificationPerMutation ==
  /\ \A l \in Range(subscribed) : owed[l] = 0
  /\ "notify" \in Range(lastCall.trace) => lastCall.invoked = subscribed

C7_Witness ==
  /\ lastCall.op = "addDocument" /\ "notify" \in Range(lastCall.trace)
  /\ subscribed = <<"L2", "L1">>
  /\ sortField = "Title" /\ sortOrder = "asc" /\ viewMode = "grid"

\* C8: an unsubscribe handle removes its own listener and no other: that
\* listener is not invoked by a later mutation, every other subscribed
\* listener is invoked once by each
C8_UnsubscribeRemovesOnlyItsListener ==
  /\ \A l \in gone : l \notin Range(listeners) /\ Count(lastCall.invoked, l) = 0
  /\ \A l \in Range(subscribed) :
       /\ l \in Range(listeners)
       /\ "notify" \in Range(lastCall.trace) => Count(lastCall.invoked, l) = 1

C8_Witness ==
  /\ "notify" \in Range(lastCall.trace)
  /\ gone = {"L1"}
  /\ subscribed = <<"L2">>
  /\ lastCall.invoked = <<"L2">>

\* C9: one Store per process, hydrated once: every getInstance() returns the
\* same object and loadDocuments is called once, by the first of them
C9_SingletonHydratedOnce ==
  /\ created <= 1
  /\ loadCalls = created
  /\ instance = created
  /\ lastCall.op = "getInstance" =>
       /\ lastCall.ret = 1
       /\ lastCall.was => lastCall.trace = <<>>
  /\ lastCall.op \notin {"none", "getInstance"} => "load" \notin Range(lastCall.trace)

C9_Witness ==
  /\ lastCall.op = "getInstance" /\ lastCall.was
  /\ Len(documents) = 3

\* the WebSocketService, its sockets and its timers
WSNext ==
  \/ (\E ok \in BOOLEAN : Connect(ok)) /\ UNCHANGED storeVars
  \/ (\E id \in DOMAIN socks : SocketOpen(id)) /\ UNCHANGED storeVars
  \/ (\E id \in DOMAIN socks : SocketError(id)) /\ UNCHANGED storeVars
  \/ (\E id \in DOMAIN socks : SocketClose(id)) /\ UNCHANGED storeVars
  \/ (\E t \in timers, ok \in BOOLEAN : TimerFires(t, ok)) /\ UNCHANGED storeVars
  \/ Disconnect /\ UNCHANGED storeVars

WSInit == StoreInit /\ storage = NoItem /\ WSIdle

WSSpec == WSInit /\ [][WSNext]_vars

(***************************************************************************)
(* Properties of the WebSocketService                                      *)
(***************************************************************************)
Min(a, b) == IF a < b THEN a ELSE b

\* one explicit connect(), and since then no socket opened, no constructor
\* threw and disconnect() was not called
OnlyCloses ==
  /\ wsLog.connects = 1 /\ wsLog.disconnects = 0
  /\ wsLog.opens = 0 /\ wsLog.throws = 0

\* C10: after one explicit connect(), when every socket closes without having
\* opened, each of the first 5 close events schedules one reconnect and a
\* later one schedules none; at most 1 + 5 sockets are constructed
C10_RetryBudget ==
  OnlyCloses =>
     /\ wsLog.scheduled = Min(wsLog.closes, maxReconnectAttempts)
     /\ wsLog.unscheduled = wsLog.closes - wsLog.scheduled
     /\ Len(socks) <= 1 + maxReconnectAttempts
     /\ Cardinality(timers) <= 1

C10_Witness ==
  /\ OnlyCloses
  /\ wsLog.closes = 6 /\ wsLog.scheduled = 5 /\ wsLog.unscheduled = 1
  /\ Len(socks) = 6 /\ timers = {}

\* C11: a reconnect timer that was pending when disconnect() was called never
\* fires afterwards, so it opens no connection
C11_DisconnectCancelsPendingTimer ==
  wsLast.op = "timer" => ~wsLast.late

\* C12: from disconnect() until the next explicit connect() the channel is
\* idle: no socket is current, no reconnect timer is pending and the retry
\* counter is 0, whatever close events are delivered in between
C12_DisconnectMeansIdle ==
  idle => ws = 0 /\ timers = {} /\ reconnectAttempts = 0

\* C13 as stated: once the budget was spent, no reconnect is scheduled until
\* disconnect() and then connect() were called
C13_OnlyDisconnectConnectRestores ==
  abandoned # "no" => wsLast.retry # "scheduled"

\* C13 amended: once the budget was spent, the counter stays at the budget and
\* no reconnect is scheduled until disconnect() is called or a socket opens;
\* a timer firing or a connect() whose socket does not open changes nothing
C13_BudgetStaysSpent ==
  abandoned = "yes" =>
     /\ reconnectAttempts = maxReconnectAttempts
     /\ wsLast.retry # "scheduled"

C13_Witness ==
  /\ abandoned = "yes"
  /\ wsLog.connects = 2 /\ wsLog.opens = 0 /\ wsLog.throws = 0
  /\ wsLast.op = "close" /\ wsLast.retry = "offline"
  /\ Len(socks) = 7 /\ socks[7] = "CLOSED"
  /\ wsLog.unscheduled = 2

\* the fixed retry budget is spent and nothing is left to happen
Abandoned ==
  /\ reconnectAttempts = maxReconnectAttempts
  /\ wsLog.unscheduled > 0
  /\ timers = {}
  /\ \A id \in DOMAIN socks : socks[id] = "CLOSED"

\* the retrying service: connect() calls, close and error events, timers; no
\* socket opens and every socket closes in the end
WSRetryNext ==
  \/ (\E ok \in BOOLEAN : Connect(ok)) /\ UNCHANGED storeVars
  \/ (\E id \in DOMAIN socks : SocketError(id)) /\ UNCHANGED storeVars
  \/ (\E id \in DOMAIN socks : SocketClose(id)) /\ UNCHANGED storeVars
  \/ (\E t \in timers, ok \in BOOLEAN : TimerFires(t, ok)) /\ UNCHANGED storeVars

WSRetrySpec ==
  /\ WSInit /\ [][WSRetryNext]_vars
  /\ WF_vars((\E id \in DOMAIN socks : SocketClose(id)) /\ UNCHANGED storeVars)
  /\ WF_vars((\E t \in timers, ok \in BOOLEAN : TimerFires(t, ok)) /\ UNCHANGED storeVars)

\* C14: when no socket opens and every socket closes, a connect() leads to
\* Abandoned: no timer is pending, and until the next explicit connect()
\* nothing changes and no socket is constructed
C14_ExhaustionIsQuiescent ==
  /\ (wsLog.connects > 0) ~> Abandoned
  /\ [][(Abandoned /\ wsLog'.connects = wsLog.connects)
          => (Abandoned' /\ socks' = socks /\ wsLog' = wsLog)]_vars

C14_Witness ==
  /\ Abandoned
  /\ wsLog.connects = 1 /\ wsLog.throws = 0
  /\ Len(socks) = 1 + maxReconnectAttempts

\* C18 as stated: an error event counts an attempt and schedules a reconnect,
\* or abandons, as a close event does
C18_ErrorIsHandledAsClose ==
  wsLast.op = "error" => wsLast.retry # "none"

\* C18 amended: an error event only logs: sockets, counter and timers are
\* left as they were; it is the close event that counts an attempt and
\* schedules a reconnect, or abandons when the budget is spent
C18_ErrorOnlyLogs ==
  /\ wsLast.op = "error" => wsLast.retry = "none" /\ wsLast.quiet
  /\ wsLast.op = "close" =>
       /\ wsLast.retry = "scheduled" =>
            reconnectAttempts >= 1 /\ reconnectTimeout \in timers
       /\ wsLast.retry # "scheduled" =>
            wsLast.retry = "offline" /\ reconnectAttempts = maxReconnectAttempts

C18_Witness ==
  /\ wsLast.op = "error"
  /\ ChannelOpen
  /\ reconnectAttempts = 0 /\ timers = {} /\ wsLog.closes = 1

(***************************************************************************)
(* The WebSocketService exchanging frames                                  *)
(***************************************************************************)
WSMsgNext ==
  \/ (Len(socks) < MaxMsgSockets /\ Connect(TRUE)) /\ UNCHANGED storeVars
  \/ (\E id \in DOMAIN socks : SocketOpen(id)) /\ UNCHANGED storeVars
  \/ (\E id \in DOMAIN socks : SocketClose(id)) /\ UNCHANGED storeVars
  \/ (\E t \in timers : Len(socks) < MaxMsgSockets /\ TimerFires(t, TRUE))
       /\ UNCHANGED storeVars
  \/ Disconnect /\ UNCHANGED storeVars
  \/ (\E id \in DOMAIN socks, data \in Frames : SocketMessage(id, data))
       /\ UNCHANGED storeVars
  \/ Deliver /\ UNCHANGED storeVars
  \/ (\E data \in Outbound : Send(data)) /\ UNCHANGED storeVars

WSMsgSpec == WSInit /\ [][WSMsgNext]_vars

\* C15: send(data) puts the stringified data on the current socket when that
\* socket is open; otherwise it transmits nothing, changes nothing, and no
\* later step transmits anything in its place
C15_SendOnlyWhenOpen ==
  /\ wsLast.op = "send" =>
       /\ wsLast.quiet /\ wsLast.queued = 0 /\ wsLast.retry = "none"
       /\ wsLast.sent = (IF wsLast.open THEN 1 ELSE 0)
       /\ wsLast.open => wire[Len(wire)] = <<ws, wsLast.data>>
  /\ wsLast.op # "send" => wsLast.sent = 0

C15_Witness ==
  /\ wsLast.op = "open" /\ ChannelOpen
  /\ wsLog.connects = 1 /\ wsLog.sends = 1
  /\ wire = <<>>

\* C16: a frame that JSON.parse rejects is dropped: nothing is handed to the
\* handler, sockets, counter and timers are left as they were; a frame that
\* parses is handed on, whatever frames came before it
C16_BadFrameIsDropped ==
  wsLast.op = "message" =>
     IF JSONparse(wsLast.data).ok
     THEN /\ wsLast.queued = 1
          /\ deferred[Len(deferred)] = JSONparse(wsLast.data).value
     ELSE /\ wsLast.queued = 0 /\ wsLast.quiet /\ wsLast.retry = "none"
          /\ wsLast.sent = 0
          /\ handled \o deferred = arrived

C16_Witness ==
  /\ wsLast.op = "message" /\ JSONparse(wsLast.data).ok
  /\ Len(socks) = 1 /\ wsLog.frames = 2
  /\ arrived = <<JSONparse(wsLast.data).value>>
  /\ deferred = arrived

\* C17: the handler is called with the notifications of the frames that
\* parsed, each once, in arrival order: what it was called with, followed by
\* what is still deferred, is the sequence of parsed frames
C17_ForwardedOnceInOrder ==
  /\ handled \o deferred = arrived
  /\ wsLast.op = "deliver" => wsLast.queued = 0 - 1 /\ handled # <<>>
  /\ wsLast.op \notin {"deliver", "message"} => wsLast.queued = 0

C17_Witness ==
  /\ wsLast.op = "deliver"
  /\ Len(handled) = 2 /\ handled[1] # handled[2]
  /\ handled = arrived /\ deferred = <<>>

(***************************************************************************)
(* SortingService.toggleSort, and the Store sorting a collection whose     *)
(* versions are dotted strings                                             *)
(***************************************************************************)
\* a toggleSort that keeps the current order when the field changes
toggleSort_keepsOrder(currentField, currentOrder, newField) ==
  IF newField = currentField
  THEN [field |-> currentField,
        order |-> IF currentOrder = "asc" THEN "desc" ELSE "asc"]
  ELSE [field |-> newField, order |-> currentOrder]

toggleSort(currentField, currentOrder, newField) ==
  IF newField = currentField
  THEN [field |-> currentField,
        order |-> IF currentOrder = "asc" THEN "desc" ELSE "asc"]
  ELSE [field |-> newField, order |-> "asc"]

\* the caller toggles twice with the same requested field, feeding the first
\* result to the second call; the Store is not involved
ToggleSort(currentField, currentOrder, newField) ==
  LET first == toggleSort(currentField, currentOrder, newField)
      second == toggleSort(first.field, first.order, newField)
  IN  /\ lastCall' = [ClientStep("toggleSort", newField, 0, newField = currentField,
                                 0, <<currentField, currentOrder>>)
                        EXCEPT !.ret = [first |-> first, second |-> second]]
      /\ UNCHANGED << instance, heap, documents, documentMap, listeners, sortField,
                      sortOrder, viewMode, storage, arrays, held, clientRefs,
                      nClientMut, created, loadCalls, subscribed, owed, gone >>

\* "1.0.0", "2.5.1", "1.2.0" and "1.0"
DottedVersions ==
  { SemVersion(<<1, 0, 0>>), SemVersion(<<2, 5, 1>>), SemVersion(<<1, 2, 0>>),
    SemVersion(<<1, 0>>) }

\* the versions of a collection: the dotted strings and the number 3
Versions == DottedVersions \cup { NumVersion(3) }

DocIDs == <<"d1", "d2", "d3", "d4">>

\* the snapshots of the collections of up to MaxVersions documents, the i-th
\* with ID DocIDs[i] and a version of Versions
VersionSnapshots ==
  { saveDocuments(NoItem, [i \in DOMAIN vs |-> Doc(DocIDs[i], "Alpha", vs[i], i)], TRUE) :
      vs \in UNION { [1..k -> Versions] : k \in 1..MaxVersions } }

SortNext ==
  \/ GetInstance /\ UNCHANGED wsVars
  \/ (\E f \in SortFields : SetSortField(f)) /\ UNCHANGED wsVars
  \/ (\E o \in SortOrders : SetSortOrder(o)) /\ UNCHANGED wsVars
  \/ ReadDocuments /\ UNCHANGED wsVars
  \/ (\E cf \in SortFields, co \in SortOrders, nf \in SortFields :
        ToggleSort(cf, co, nf)) /\ UNCHANGED wsVars

SortInit == StoreFresh /\ WSIdle /\ storage \in VersionSnapshots

SortSpec == SortInit /\ [][SortNext]_vars

\* the order of a field's two values
Opposite(o) == IF o = "asc" THEN "desc" ELSE "asc"

\* C19 as stated: toggleSort(f, o, f) = {f, opposite(o)}; toggleSort(f, o, g)
\* = {g, asc} for g # f; and a second application with the same requested
\* field gives back {f, o}
C19_ToggleTwiceIsIdentity ==
  lastCall.op = "toggleSort" =>
     LET f == lastCall.before[1]
         o == lastCall.before[2]
         g == lastCall.arg
     IN  /\ g = f => lastCall.ret.first = [field |-> f, order |-> Opposite(o)]
         /\ g # f => lastCall.ret.first = [field |-> g, order |-> "asc"]
         /\ lastCall.ret.second = [field |-> f, order |-> o]

\* C19 amended: the two equations; a second application with the same
\* requested field gives back {f, o} when that field is the current one, and
\* gives {g, desc} when it is another one
C19_ToggleSort ==
  lastCall.op = "toggleSort" =>
     LET f == lastCall.before[1]
         o == lastCall.before[2]
         g == lastCall.arg
     IN  /\ g = f => lastCall.ret.first = [field |-> f, order |-> Opposite(o)]
         /\ g # f => lastCall.ret.first = [field |-> g, order |-> "asc"]
         /\ g = f => lastCall.ret.second = [field |-> f, order |-> o]
         /\ g # f => lastCall.ret.second = [field |-> g, order |-> "desc"]

C19_Witness ==
  /\ lastCall.op = "toggleSort"
  /\ lastCall.before = <<"Title", "desc">> /\ lastCall.arg = "Version"
  /\ lastCall.ret.first = [field |-> "Version", order |-> "asc"]
  /\ sortField = "CreatedAt" /\ sortOrder = "desc"

\* the component tuples of two dotted versions, compared left to right with
\* a missing component read as 0: -1, 0 or 1
RECURSIVE TupleOrder(_, _)
TupleOrder(p, q) ==
  IF p = <<>> /\ q = <<>> THEN 0
  ELSE LET x == IF p = <<>> THEN 0 ELSE Head(p)
           y == IF q = <<>> THEN 0 ELSE Head(q)
       IN  IF x < y THEN 0 - 1
           ELSE IF x > y THEN 1
           ELSE TupleOrder(IF p = <<>> THEN p ELSE Tail(p),
                           IF q = <<>> THEN q ELSE Tail(q))

\* the versions of the documents a sequence of references points at
VersionsOf(refs) == [i \in DOMAIN refs |-> heap[refs[i]].Version.parts]

NonDecreasing(vs) ==
  \A i, j \in DOMAIN vs : i < j => TupleOrder(vs[i], vs[j]) <= 0

IsPermutation(s, t) ==
  Len(s) = Len(t) /\ \A x \in Range(s) \cup Range(t) : Count(s, x) = Count(t, x)

\* what getDocuments() returns under order o
SortedBy(o) == sortDocuments([World EXCEPT !.sortOrder = o], documents)

\* the last call was getDocuments() on a hydrated collection of dotted
\* versions, by version
ReadByVersion ==
  /\ lastCall.op = "readDocuments" /\ sortField = "Version" /\ Len(documents) >= 2
  /\ \A i \in DOMAIN documents : HasDot(heap[documents[i]].Version)

\* C20 as stated: sorted by version, asc gives the documents in
\* non-decreasing order of their component tuples, and desc gives the exact
\* reverse of it when no two version strings are the same
C20_DescIsReverseForDistinctStrings ==
  ReadByVersion =>
     /\ IsPermutation(lastCall.seen.docs, documents)
     /\ sortOrder = "asc" => NonDecreasing(VersionsOf(lastCall.seen.docs))
     /\ (sortOrder = "desc"
         /\ \A i, j \in DOMAIN documents :
              i # j => VersionsOf(documents)[i] # VersionsOf(documents)[j])
        => lastCall.seen.docs = Reverse(SortedBy("asc"))

\* C20 amended: the same, desc being the exact reverse of asc when no two
\* versions have equal component tuples ("1.0" and "1.0.0" are equal, and
\* keep their stored order under both orders)
C20_VersionOrder ==
  ReadByVersion =>
     /\ IsPermutation(lastCall.seen.docs, documents)
     /\ sortOrder = "asc" => NonDecreasing(VersionsOf(lastCall.seen.docs))
     /\ sortOrder = "desc" =>
          NonDecreasing(Reverse(VersionsOf(lastCall.seen.docs)))
     /\ (sortOrder = "desc"
         /\ \A i, j \in DOMAIN documents :
              i # j => TupleOrder(VersionsOf(documents)[i], VersionsOf(documents)[j]) # 0)
        => lastCall.seen.docs = Reverse(SortedBy("asc"))
     /\ \A i, j \in DOMAIN lastCall.seen.docs :
          (i < j /\ TupleOrder(VersionsOf(lastCall.seen.docs)[i],
                               VersionsOf(lastCall.seen.docs)[j]) = 0)
          => lastCall.seen.docs[i] < lastCall.seen.docs[j]

C20_Witness ==
  /\ ReadByVersion /\ sortOrder = "asc"
  /\ VersionsOf(documents) = << <<1, 0, 0>>, <<2, 5, 1>>, <<1, 2, 0>> >>
  /\ VersionsOf(lastCall.seen.docs) = << <<1, 0, 0>>, <<1, 2, 0>>, <<2, 5, 1>> >>

\* the versions, with their types, of the documents a sequence of references
\* points at
VersionValues(refs) == [i \in DOMAIN refs |-> heap[refs[i]].Version]

\* "1.0.0", "2.5.1" and the number 3, in this order
MixedStored == << SemVersion(<<1, 0, 0>>), SemVersion(<<2, 5, 1>>), NumVersion(3) >>

\* the last call was getDocuments(), by version, on the collection stored as
\* ["1.0.0", "2.5.1", 3]
ReadMixed ==
  /\ lastCall.op = "readDocuments" /\ sortField = "Version"
  /\ VersionValues(documents) = MixedStored

\* C21: stored as ["1.0.0", "2.5.1", 3] and sorted by version, getDocuments()
\* gives ["1.0.0", "2.5.1", 3] under asc and ["2.5.1", "1.0.0", 3] under desc;
\* the descending result is not the reverse of the ascending one, and the
\* document with the integer version stays where it is stored, after the two
\* documents with dotted versions
C21_MixedVersionsKeepInteger ==
  ReadMixed =>
     /\ sortOrder = "asc" => VersionValues(lastCall.seen.docs) = MixedStored
     /\ sortOrder = "desc" =>
          VersionValues(lastCall.seen.docs) =
            << SemVersion(<<2, 5, 1>>), SemVersion(<<1, 0, 0>>), NumVersion(3) >>
     /\ SortedBy("desc") # Reverse(SortedBy("asc"))
     /\ lastCall.seen.docs[3] = documents[3]

C21_Witness ==
  /\ ReadMixed /\ sortOrder = "desc"
  /\ VersionValues(lastCall.seen.docs) =
       << SemVersion(<<2, 5, 1>>), SemVersion(<<1, 0, 0>>), NumVersion(3) >>

(***************************************************************************)
(* The DocumentController, the WebSocketManager that maps the realtime     *)
(* channel's notifications to documents, and the NotificationService.      *)
(* Their methods are functions of the Store object w: w.rendered lists the *)
(* DocumentView.render calls and w.shown the messages shown to the user by *)
(* the running call.                                                       *)
(***************************************************************************)
\* the Timestamp texts: two ISO-8601 instants and a text that is no date
Timestamps ==
  { [json |-> "string", ms |-> 1], [json |-> "string", ms |-> 2],
    [json |-> "not a date", ms |-> 0] }

\* the users with the titles they give their documents
Users == { [UserID |-> "user-123", UserName |-> "John Doe", DocumentTitle |-> "Alpha"],
           [UserID |-> "", UserName |-> "", DocumentTitle |-> "Beta"] }

SocketsNotifications ==
  { [Timestamp |-> t, UserID |-> u.UserID, UserName |-> u.UserName,
     DocumentID |-> id, DocumentTitle |-> u.DocumentTitle] :
      t \in Timestamps, u \in Users, id \in IDs }

\* a fromSocketNotification that leaves the contributor out
fromSocketNotification_noContributor(n) ==
  [ID |-> n.DocumentID, Title |-> n.DocumentTitle, Contributors |-> <<>>,
   Version |-> NumVersion(1), Attachments |-> <<>>,
   CreatedAt |-> DateFromJSON(n.Timestamp), UpdatedAt |-> DateFromJSON(n.Timestamp)]

\* DocumentMapper.fromSocketNotification
fromSocketNotification(n) ==
  [ID |-> n.DocumentID, Title |-> n.DocumentTitle,
   Contributors |-> << [ID |-> n.UserID, Name |-> n.UserName] >>,
   Version |-> NumVersion(1), Attachments |-> <<>>,
   CreatedAt |-> DateFromJSON(n.Timestamp), UpdatedAt |-> DateFromJSON(n.Timestamp)]

\* NotificationService.notifyDocumentReceived / notifyDocumentCreated: one
\* showNotification call, with the message and the document's title
notifyDocumentReceived(w, r) ==
  [w EXCEPT !.shown = Append(@, [message |-> "New document added", title |-> w.heap[r].Title]),
            !.trace = Append(@, "show")]

notifyDocumentCreated(w, r) ==
  [w EXCEPT !.shown = Append(@, [message |-> "Document created", title |-> w.heap[r].Title]),
            !.trace = Append(@, "show")]

\* NotificationService.notify(message): one showNotification call with the
\* message as it is
showMessage(w, message) ==
  [w EXCEPT !.shown = Append(@, [message |-> message, title |-> ""]),
            !.trace = Append(@, "show")]

\* the messages a caller hands to NotificationService.notify
Messages == { "hello" }

\* the DocumentController constructor: the Store, the listener, the first render
ControllerConstructor(w) ==
  updateView(subscribe(getInstance(w), UpdateViewListener))

\* a handleNewDocument that tells the user only of a document the Store took
handleNewDocument_silentOnDuplicate(w, r, setItemOk) ==
  IF w.heap[r].ID \in w.documentMap THEN addDocument(w, r, setItemOk)
  ELSE notifyDocumentReceived(addDocument(w, r, setItemOk), r)

\* DocumentController.handleNewDocument(document); r refers to the document
handleNewDocument(w, r, setItemOk) ==
  notifyDocumentReceived(addDocument(w, r, setItemOk), r)

\* WebSocketManager.handleNotification(notification): the document is a new
\* object, whose reference is the next of the heap
handleNotification(w, n, setItemOk) ==
  handleNewDocument([w EXCEPT !.heap = Append(@, fromSocketNotification(n))],
                    Len(w.heap) + 1, setItemOk)

\* a handleSort that applies the order before the field
handleSort_orderFirst(w, field) ==
  LET result == toggleSort(getSortField(w), getSortOrder(w), field)
  IN  setSortField(setSortOrder(w, result.order), result.field)

\* DocumentController.handleSort(field)
handleSort(w, field) ==
  LET result == toggleSort(getSortField(w), getSortOrder(w), field)
  IN  setSortOrder(setSortField(w, result.field), result.order)

\* DocumentController.handleViewModeChange(mode)
handleViewModeChange(w, mode) == setViewMode(w, mode)

\* the callback DocumentController.handleCreate gives to the modal, called
\* with the document the user submitted
onSubmit(w, r, setItemOk) ==
  notifyDocumentCreated(addDocument(w, r, setItemOk), r)

HasController == UpdateViewListener \in Range(listeners)

\* main.ts constructs the one DocumentController of the page
NewController ==
  /\ ~HasController
  /\ LET w == ControllerConstructor(World)
     IN  /\ Commit(w)
         /\ lastCall' = Call("newController", "", 0, instance # 0, w, 0)
         /\ Account(w, FALSE)
  /\ UNCHANGED << arrays, held, clientRefs, nClientMut, subscribed, gone >>

\* the WebSocketService hands a notification to the WebSocketManager
HandleNotification(n, setItemOk) ==
  /\ HasController
  /\ Len(heap) < MaxPageDocs
  /\ LET r == Len(heap) + 1
         w == handleNotification(World, n, setItemOk)
         stored == r \in Range(w.documents)
     IN  /\ Commit([w EXCEPT !.heap = IF stored THEN @ ELSE heap])
         /\ lastCall' = Call("handleNotification", n, r, HasID(n.DocumentID), w, w.heap[r])
         /\ clientRefs' = IF stored THEN clientRefs \cup {r} ELSE clientRefs
         /\ Account(w, stored)
  /\ UNCHANGED << arrays, held, nClientMut, subscribed, gone >>

\* the user submits the modal's form
SubmitModal(doc, setItemOk) ==
  /\ HasController
  /\ Len(heap) < MaxPageDocs
  /\ LET r == Len(heap) + 1
         w == onSubmit([World EXCEPT !.heap = Append(@, doc)], r, setItemOk)
         stored == r \in Range(w.documents)
     IN  /\ Commit([w EXCEPT !.heap = IF stored THEN @ ELSE heap])
         /\ lastCall' = Call("onSubmit", doc.ID, r, HasID(doc.ID), w, 0)
         /\ clientRefs' = IF stored THEN clientRefs \cup {r} ELSE clientRefs
         /\ Account(w, stored)
  /\ UNCHANGED << arrays, held, nClientMut, subscribed, gone >>

\* a caller of the controller's NotificationService calls notify(message)
Notify(message) ==
  /\ HasController
  /\ LET w == showMessage(World, message)
     IN  /\ Commit(w)
         /\ lastCall' = Call("notify", message, 0, FALSE, w, 0)
         /\ Account(w, FALSE)
  /\ UNCHANGED << arrays, held, clientRefs, nClientMut, subscribed, gone >>

\* the user clicks a sort control
HandleSort(field) ==
  /\ HasController
  /\ LET w == handleSort(World, field)
     IN  /\ Commit(w)
         /\ lastCall' = [Call("handleSort", field, 0, field = sortField, w, 0)
                           EXCEPT !.before = <<sortField, sortOrder>>]
         /\ Account(w, FALSE)
  /\ UNCHANGED << arrays, held, clientRefs, nClientMut, subscribed, gone >>

\* the user clicks a view mode control
HandleViewModeChange(mode) ==
  /\ HasController
  /\ LET w == handleViewModeChange(World, mode)
     IN  /\ Commit(w)
         /\ lastCall' = Call("handleViewModeChange", mode, 0, mode = viewMode, w, 0)
         /\ Account(w, TRUE)
  /\ UNCHANGED << arrays, held, clientRefs, nClientMut, subscribed, gone >>

\* the page: the controller, the user, the realtime channel, and main.ts adding
\* the documents it fetched
ControllerNext ==
  \/ NewController /\ UNCHANGED wsVars
  \/ (\E n \in SocketsNotifications : HandleNotification(n, TRUE)) /\ UNCHANGED wsVars
  \/ (\E doc \in NewDocs : SubmitModal(doc, TRUE)) /\ UNCHANGED wsVars
  \/ (\E f \in SortFields : HandleSort(f)) /\ UNCHANGED wsVars
  \/ (\E m \in ViewModes : HandleViewModeChange(m)) /\ UNCHANGED wsVars
  \/ (\E message \in Messages : Notify(message)) /\ UNCHANGED wsVars
  \/ (\E doc \in NewDocs : Len(heap) < MaxPageDocs /\ AddDocument(doc, TRUE))
       /\ UNCHANGED wsVars

\* what an earlier session of the page left in localStorage
PageSnapshots == { NoItem, saveDocuments(NoItem, << Doc("a", "Alpha", NumVersion(1), 1) >>, TRUE) }

ControllerInit == StoreFresh /\ WSIdle /\ storage \in PageSnapshots

ControllerSpec == ControllerInit /\ [][ControllerNext]_vars

\* a notification whose Timestamp is a date
WellFormed(n) == n.Timestamp.json = "string"

\* C22: for a well-formed notification n, fromSocketNotification(n) has
\* ID = n.DocumentID, Title = n.DocumentTitle, the one contributor
\* {ID: n.UserID, Name: n.UserName}, Version 1, no attachments, and CreatedAt
\* and UpdatedAt at the instant of n.Timestamp; mapping the same n again
\* gives an equal document
C22_NotificationMapping ==
  (lastCall.op = "handleNotification" /\ WellFormed(lastCall.arg)) =>
     LET n == lastCall.arg
         d == lastCall.ret
     IN  /\ d.ID = n.DocumentID
         /\ d.Title = n.DocumentTitle
         /\ d.Contributors = << [ID |-> n.UserID, Name |-> n.UserName] >>
         /\ d.Version = NumVersion(1)
         /\ d.Attachments = <<>>
         /\ getTime(d.CreatedAt) = Num(n.Timestamp.ms)
         /\ getTime(d.UpdatedAt) = Num(n.Timestamp.ms)
         /\ d = fromSocketNotification(n)
         /\ lastCall.ref \in Range(documents) => heap[lastCall.ref] = d

C22_Witness ==
  /\ lastCall.op = "handleNotification" /\ WellFormed(lastCall.arg)
  /\ lastCall.arg.UserName = "John Doe" /\ lastCall.arg.Timestamp.ms = 2
  /\ lastCall.ref \in Range(documents)
  /\ Len(documents) = 2 /\ lastCall.was

(***************************************************************************)
(* The Persistence Gateway called directly: saveDocuments(D) and           *)
(* loadDocuments()                                                         *)
(***************************************************************************)
\* the documents that are saved: one with a numeric version and no
\* contributor, one with a contributor, a dotted version and an attachment,
\* and one whose UpdatedAt is an Invalid Date
SavedDocs ==
  { Doc("a", "Beta", NumVersion(1), 2),
    [Doc("b", "Alpha", SemVersion(<<1, 2, 0>>), 1) EXCEPT
       !.Contributors = << [ID |-> "user-123", Name |-> "John Doe"] >>,
       !.Attachments = << "notes.txt" >>, !.UpdatedAt = DateOf(3)],
    [Doc("c", "Alpha", NumVersion(2), 1) EXCEPT !.UpdatedAt = InvalidDate] }

SavedSequences == UNION { [1..k -> SavedDocs] : k \in 0..MaxSaved }

\* saveDocuments(D); setItemOk = FALSE when localStorage.setItem throws
SaveDocuments(D, setItemOk) ==
  /\ storage' = saveDocuments(storage, D, setItemOk)
  /\ lastCall' = [ClientStep("saveDocuments", D, 0, FALSE, 0, <<>>)
                    EXCEPT !.trace = <<"save">> \o (IF setItemOk THEN <<>> ELSE <<"error">>)]
  /\ UNCHANGED << instance, heap, documents, documentMap, listeners, sortField,
                  sortOrder, viewMode, arrays, held, clientRefs, nClientMut,
                  created, loadCalls, subscribed, owed, gone >>

\* loadDocuments(); before tells which call preceded it
LoadDocuments ==
  /\ loadCalls < MaxLoads
  /\ loadCalls' = loadCalls + 1
  /\ lastCall' = [ClientStep("loadDocuments", "", 0, FALSE, loadDocuments(storage),
                             << lastCall.op, lastCall.arg, lastCall.trace >>)
                    EXCEPT !.trace = <<"load">> \o (IF loadFailure(storage)
                                                    THEN <<"error">> ELSE <<>>)]
  /\ UNCHANGED << instance, heap, documents, documentMap, listeners, sortField,
                  sortOrder, viewMode, storage, arrays, held, clientRefs, nClientMut,
                  created, subscribed, owed, gone >>

GatewayNext ==
  \/ (\E D \in SavedSequences, ok \in BOOLEAN : SaveDocuments(D, ok)) /\ UNCHANGED wsVars
  \/ LoadDocuments /\ UNCHANGED wsVars

GatewayInit == StoreFresh /\ WSIdle /\ storage \in {NoItem, Corrupt}

GatewaySpec == GatewayInit /\ [][GatewayNext]_vars

\* the last call was loadDocuments(), and the one before it saveDocuments(D)
LoadedAfterSave == lastCall.op = "loadDocuments" /\ lastCall.before[1] = "saveDocuments"

\* two dates at the same instant
SameInstant(d, e) == ~d.time.nan /\ ~e.time.nan /\ d.time.v = e.time.v

\* two documents with equal ID, Title, Contributors, Version and Attachments
\* and CreatedAt and UpdatedAt at equal instants
SameDocument(d, e) ==
  /\ d.ID = e.ID /\ d.Title = e.Title /\ d.Contributors = e.Contributors
  /\ d.Version = e.Version /\ d.Attachments = e.Attachments
  /\ SameInstant(d.CreatedAt, e.CreatedAt) /\ SameInstant(d.UpdatedAt, e.UpdatedAt)

\* the dates of the documents of D are instants
HasInstants(D) ==
  \A i \in DOMAIN D : ~D[i].CreatedAt.time.nan /\ ~D[i].UpdatedAt.time.nan

\* C23 as stated: for every D, loadDocuments() after saveDocuments(D) returns
\* as many documents, in the same order, each equal to the one saved; the
\* snapshot of an earlier save is overwritten
C23_RoundTripsEveryCollection ==
  (LoadedAfterSave /\ HasInstants(lastCall.before[2])) =>
     LET D == lastCall.before[2]
     IN  /\ Len(lastCall.ret) = Len(D)
         /\ \A i \in DOMAIN D : SameDocument(lastCall.ret[i], D[i])

\* C23 amended: the same when the write succeeded, for the documents whose
\* dates are instants (an Invalid Date is saved as null and comes back as the
\* epoch); when the write failed loadDocuments() returns what the snapshot
\* from before the call holds
C23_RoundTripsWhenWritten ==
  LoadedAfterSave =>
     LET D == lastCall.before[2]
         written == "error" \notin Range(lastCall.before[3])
     IN  /\ written =>
              /\ Len(lastCall.ret) = Len(D)
              /\ \A i \in DOMAIN D :
                   LET d == D[i]
                       e == lastCall.ret[i]
                   IN  /\ e.ID = d.ID /\ e.Title = d.Title
                       /\ e.Contributors = d.Contributors
                       /\ e.Version = d.Version /\ e.Attachments = d.Attachments
                       /\ e.CreatedAt = (IF d.CreatedAt.time.nan THEN DateOf(0)
                                         ELSE d.CreatedAt)
                       /\ e.UpdatedAt = (IF d.UpdatedAt.time.nan THEN DateOf(0)
                                         ELSE d.UpdatedAt)
              /\ storage.kind = "json" /\ Len(storage.docs) = Len(D)
         /\ lastCall.ret = loadDocuments(storage)

C23_Witness ==
  /\ LoadedAfterSave
  /\ "error" \notin Range(lastCall.before[3])
  /\ Len(lastCall.before[2]) = 2
  /\ lastCall.ret[1].ID = "b" /\ lastCall.ret[2].ID = "a"
  /\ lastCall.ret[1].UpdatedAt = DateOf(3)

(***************************************************************************)
(* Hydration                                                               *)
(***************************************************************************)
\* the last call constructed the Store
Hydrated == lastCall.op = "getInstance" /\ ~lastCall.was

\* C24 as stated: loadDocuments() does not throw; when the item is absent or
\* cannot be parsed it returns no documents and logs a failure, and the Store
\* constructed on it has an empty collection
C24_AbsentOrCorruptIsLogged ==
  (Hydrated /\ storage.kind \in {"absent", "corrupt"}) =>
     /\ instance # 0
     /\ documents = <<>>
     /\ lastCall.trace = <<"load", "error">>

\* C24 amended: loadDocuments() does not throw; when the item is absent or
\* cannot be parsed it returns no documents and the Store constructed on it
\* has an empty collection; it logs a failure when the item cannot be parsed,
\* and nothing when the item is absent
C24_OnlyCorruptIsLogged ==
  Hydrated =>
     /\ instance # 0
     /\ storage.kind \in {"absent", "corrupt"} => documents = <<>>
     /\ storage.kind = "corrupt" => lastCall.trace = <<"load", "error">>
     /\ storage.kind # "corrupt" => lastCall.trace = <<"load">>
     /\ Len(documents) = Len(loadDocuments(storage))

C24_Witness ==
  /\ Hydrated /\ storage = Corrupt
  /\ documents = <<>> /\ heap = <<>>

\* the page is loaded again: a new process, whose Store is constructed from
\* what localStorage holds; before tells what the Store of the page before
\* held and which call it made last
Reload ==
  /\ instance # 0
  /\ LET w == StoreConstructor([World EXCEPT !.instance = 0, !.created = 0,
                                             !.loadCalls = 0])
     IN  /\ Commit(w)
         /\ lastCall' = [Call("reload", "", 0, FALSE, w, 0)
                           EXCEPT !.before = [op |-> lastCall.op,
                                              was |-> lastCall.was,
                                              trace |-> lastCall.trace,
                                              docs |-> Deref(World, documents),
                                              sortField |-> sortField,
                                              sortOrder |-> sortOrder,
                                              viewMode |-> viewMode]]
  /\ arrays' = <<>> /\ held' = {} /\ clientRefs' = {} /\ nClientMut' = 0
  /\ subscribed' = <<>> /\ owed' = Zero /\ gone' = {}

\* the Store over several loads of the page
RestartNext ==
  \/ GetInstance /\ UNCHANGED wsVars
  \/ (\E doc \in NewDocs, ok \in BOOLEAN : AddDocument(doc, ok)) /\ UNCHANGED wsVars
  \/ (\E f \in SortFields : SetSortField(f)) /\ UNCHANGED wsVars
  \/ (\E o \in SortOrders : SetSortOrder(o)) /\ UNCHANGED wsVars
  \/ (\E m \in ViewModes : SetViewMode(m)) /\ UNCHANGED wsVars
  \/ ReadDocuments /\ UNCHANGED wsVars
  \/ Reload /\ UNCHANGED wsVars

RestartSpec == Init /\ [][RestartNext]_vars

\* the documents localStorage holds, as loadDocuments() gives them, are the
\* documents of the collection, in insertion order
SnapshotIsCollection == loadDocuments(storage) = Deref(World, documents)

\* the call wrote the collection to localStorage
Wrote(trace) == "save" \in Range(trace) /\ "error" \notin Range(trace)

\* C25 as stated: after hydration and after every addDocument call the snapshot
\* holds exactly the documents of the collection, in insertion order, and a
\* Store constructed from it at such a point holds the same documents
C25_NoDataLoss ==
  /\ lastCall.op \in {"getInstance", "addDocument", "reload"} => SnapshotIsCollection
  /\ (lastCall.op = "reload"
      /\ lastCall.before.op \in {"getInstance", "addDocument", "reload"})
     => Deref(World, documents) = lastCall.before.docs

\* C25 amended: the same after hydration and after every addDocument call
\* whose write succeeded; after an addDocument call whose write failed the
\* snapshot is without the new document, and a Store constructed from it is
\* without the documents added since the last write that succeeded
C25_NoDataLossWhenWritten ==
  /\ (lastCall.op \in {"getInstance", "reload"} /\ ~lastCall.was) => SnapshotIsCollection
  /\ (lastCall.op = "addDocument" /\ Wrote(lastCall.trace)) => SnapshotIsCollection
  /\ (lastCall.op = "addDocument" /\ "error" \in Range(lastCall.trace))
     => Len(loadDocuments(storage)) < Len(documents)
  /\ (lastCall.op = "reload"
      /\ \/ lastCall.before.op \in {"getInstance", "reload"} /\ ~lastCall.before.was
         \/ lastCall.before.op = "addDocument" /\ Wrote(lastCall.before.trace))
     => Deref(World, documents) = lastCall.before.docs
  /\ lastCall.op = "reload" => Len(documents) <= Len(lastCall.before.docs)

C25_Witness ==
  /\ lastCall.op = "reload"
  /\ lastCall.before.op = "addDocument" /\ Wrote(lastCall.before.trace)
  /\ Len(documents) = 3
  /\ Deref(World, documents) = lastCall.before.docs

\* C29 as stated: the view mode is kept over a reload: a Store constructed
\* afresh after setViewMode(m) reports the view mode m
C29_ViewModeIsPersisted ==
  lastCall.op = "reload" => viewMode = lastCall.before.viewMode

\* C29 amended: the view mode is held by the Store object only: setViewMode
\* writes nothing to localStorage, and a Store constructed afresh reports the
\* view mode list (and the sort field CreatedAt, order desc) whatever was set
C29_ViewModeIsNotPersisted ==
  /\ lastCall.op = "reload" =>
       /\ viewMode = "list"
       /\ sortField = "CreatedAt" /\ sortOrder = "desc"
  /\ lastCall.op = "setViewMode" =>
       /\ viewMode = lastCall.arg
       /\ "save" \notin Range(lastCall.trace)

C29_Witness ==
  /\ lastCall.op = "reload"
  /\ lastCall.before.op = "setViewMode" /\ lastCall.before.viewMode = "grid"
  /\ viewMode = "list"

(***************************************************************************)
(* The retry counter of the WebSocketService                               *)
(***************************************************************************)
\* C26: an open event and disconnect() set the retry counter to 0, whatever
\* it was, and the close events that follow are given the whole budget again:
\* a close event that finds the counter at c < 5 schedules a reconnect and
\* makes it c + 1, so the first one after the reset is attempt 1 of 5
C26_CounterIsReset ==
  /\ wsLast.op \in {"open", "disconnect"} => reconnectAttempts = 0
  /\ (wsLast.op = "close" /\ wsLast.was < maxReconnectAttempts) =>
       /\ wsLast.retry = "scheduled"
       /\ reconnectAttempts = wsLast.was + 1
  /\ (wsLast.op = "close" /\ wsLast.was = maxReconnectAttempts) =>
       /\ wsLast.retry = "offline"
       /\ reconnectAttempts = maxReconnectAttempts

\* one failed reconnect, an open event, and the fifth reconnect after it
C26_Witness ==
  /\ wsLast.op = "close" /\ wsLast.retry = "scheduled"
  /\ reconnectAttempts = maxReconnectAttempts
  /\ wsLog.opens = 1 /\ wsLog.disconnects = 0 /\ wsLog.connects = 1
  /\ wsLog.scheduled = 6

(***************************************************************************)
(* Sorting and the stored order                                            *)
(***************************************************************************)
\* the references of a process are given out in the order the documents come
\* to the collection (hydration, then each addDocument): the collection is in
\* insertion order when it lists them in increasing order
InInsertionOrder(refs) == refs = [i \in 1..Len(refs) |-> i]

\* C27: getDocuments(), setSortField and setSortOrder leave Store.documents
\* in insertion order, and the snapshot the next addDocument writes lists the
\* documents in insertion order whatever the sort field and order are
C27_SortLeavesStoredOrder ==
  /\ instance # 0 => InInsertionOrder(documents)
  /\ lastCall.op = "readDocuments" =>
       IsPermutation(lastCall.seen.docs, documents)
  /\ (lastCall.op = "addDocument" /\ Wrote(lastCall.trace)) =>
       storage = Json([i \in 1..Len(heap) |-> StringifyDoc(heap[i])])

\* an addDocument that wrote the snapshot while getDocuments() gives another
\* order than the stored one
C27_Witness ==
  /\ lastCall.op = "addDocument" /\ Wrote(lastCall.trace)
  /\ Len(documents) = 3
  /\ sortField = "Title" /\ sortOrder = "asc"
  /\ DocsNow # documents

(***************************************************************************)
(* What each Store operation leaves alone                                  *)
(***************************************************************************)
\* the collection and the snapshot are the ones before the step
SameDocuments ==
  /\ documents' = documents /\ heap' = heap /\ documentMap' = documentMap
  /\ storage' = storage

\* C28: addDocument leaves the sort field, the sort order and the view mode
\* alone; setSortField, setSortOrder and setViewMode leave the collection and
\* the snapshot alone, do not save, and change their own field only;
\* getDocuments, getSortField, getSortOrder and getViewMode change nothing
\* and invoke no listener
C28_FrameConditions ==
  [][ /\ lastCall'.op = "addDocument" =>
           /\ sortField' = sortField /\ sortOrder' = sortOrder /\ viewMode' = viewMode
           /\ listeners' = listeners
      /\ IsSetter(lastCall'.op) =>
           /\ SameDocuments
           /\ "save" \notin Range(lastCall'.trace)
           /\ listeners' = listeners
      /\ lastCall'.op = "setSortField" => sortOrder' = sortOrder /\ viewMode' = viewMode
      /\ lastCall'.op = "setSortOrder" => sortField' = sortField /\ viewMode' = viewMode
      /\ lastCall'.op = "setViewMode" => sortField' = sortField /\ sortOrder' = sortOrder
      /\ lastCall'.op \in {"readDocuments", "readSettings"} =>
           /\ SameDocuments
           /\ sortField' = sortField /\ sortOrder' = sortOrder /\ viewMode' = viewMode
           /\ listeners' = listeners
           /\ lastCall'.invoked = <<>> /\ lastCall'.trace = <<>>
           /\ owed' = owed
      /\ lastCall'.op = "readSettings" =>
           lastCall'.ret = [sortField |-> sortField, sortOrder |-> sortOrder,
                            viewMode |-> viewMode]
    ]_vars

\* a getDocuments() call on a collection of two documents that are not in
\* sorted order, with two listeners subscribed
C28_Witness ==
  /\ lastCall.op = "readDocuments"
  /\ Len(subscribed) = 2
  /\ Len(documents) >= 2 /\ lastCall.seen.docs # documents
  /\ sortField = "Title" /\ viewMode = "grid"

(***************************************************************************)
(* The DocumentController and the Store's notifications                    *)
(***************************************************************************)
\* what getDocuments() returns under a sort field and a sort order
SortedUnder(field, order) ==
  sortDocuments([World EXCEPT !.sortField = field, !.sortOrder = order], documents)

\* what DocumentView.render is given when the Store is read now
RenderedNow == [documents |-> DocsNow, sortField |-> sortField, viewMode |-> viewMode]

\* C30: the controller subscribes one listener and renders once when it is
\* constructed; afterwards each notification of the Store makes one render
\* call, whose arguments are what getDocuments(), getSortField() and
\* getViewMode() return at that notification
C30_OneRenderPerNotification ==
  /\ HasController => Count(listeners, UpdateViewListener) = 1
  /\ lastCall.op = "newController" =>
       /\ lastCall.rendered = << RenderedNow >>
       /\ "notify" \notin Range(lastCall.trace)
  /\ lastCall.op \notin {"none", "newController"} =>
       /\ Len(lastCall.rendered) = Count(lastCall.trace, "notify")
       /\ Count(lastCall.invoked, UpdateViewListener) = Count(lastCall.trace, "notify")
       /\ lastCall.rendered # <<>> =>
            lastCall.rendered[Len(lastCall.rendered)] = RenderedNow
  /\ lastCall.op = "handleSort" =>
       /\ Len(lastCall.rendered) = 2
       /\ lastCall.rendered[1] =
            [documents |-> SortedUnder(sortField, lastCall.before[2]),
             sortField |-> sortField, viewMode |-> viewMode]

\* a click on another sort field: two renders, of different orders of the
\* documents, neither of them the order of the render before the click
C30_Witness ==
  /\ lastCall.op = "handleSort" /\ ~lastCall.was
  /\ Len(documents) = 2
  /\ lastCall.rendered[1].documents # lastCall.rendered[2].documents
  /\ lastCall.before = << "Title", "desc" >> /\ sortField = "CreatedAt"

(***************************************************************************)
(* The DocumentController's handlers                                       *)
(***************************************************************************)
\* C31: after handleSort(field) the Store's sort field and order are
\* toggleSort(previous field, previous order, field); the Store notified
\* twice and the view rendered twice; the first render saw the requested
\* field with the previous order, the second what the Store holds now
C31_SortAppliedInTwoSteps ==
  lastCall.op = "handleSort" =>
    LET result == toggleSort(lastCall.before[1], lastCall.before[2], lastCall.arg)
    IN  /\ sortField = result.field /\ sortOrder = result.order
        /\ lastCall.trace = << "notify", "notify" >>
        /\ lastCall.invoked = listeners \o listeners
        /\ Len(lastCall.rendered) = 2
        /\ lastCall.rendered[1] =
             [documents |-> SortedUnder(result.field, lastCall.before[2]),
              sortField |-> result.field, viewMode |-> viewMode]
        /\ lastCall.rendered[2] = RenderedNow

\* a click on another field while the order is descending: the first render
\* shows the documents by the new field in descending order, the second in
\* ascending order
C31_Witness ==
  /\ lastCall.op = "handleSort" /\ lastCall.arg # lastCall.before[1]
  /\ lastCall.before[2] = "desc" /\ sortOrder = "asc"
  /\ Len(documents) = 2
  /\ lastCall.rendered[1].documents = Reverse(lastCall.rendered[2].documents)
  /\ lastCall.rendered[1].documents # lastCall.rendered[2].documents

\* the effects of one addDocument call: a warning for a duplicate, otherwise
\* the push, the write and the notification
AddedOnce(trace) ==
  \/ trace = << "warn" >>
  \/ trace = << "push", "save", "notify" >>
  \/ trace = << "push", "save", "error", "notify" >>

\* C32: a document delivered by the channel reaches addDocument once and
\* then the user is shown 'New document added' with its title once, also
\* when addDocument rejected it as a duplicate; a document submitted in the
\* modal likewise, with 'Document created'
C32_AddThenShow ==
  /\ lastCall.op = "handleNotification" =>
       /\ AddedOnce(SubSeq(lastCall.trace, 1, Len(lastCall.trace) - 1))
       /\ lastCall.trace[Len(lastCall.trace)] = "show"
       /\ lastCall.shown = << [message |-> "New document added",
                               title |-> lastCall.arg.DocumentTitle] >>
  /\ lastCall.op = "onSubmit" =>
       /\ AddedOnce(SubSeq(lastCall.trace, 1, Len(lastCall.trace) - 1))
       /\ lastCall.trace[Len(lastCall.trace)] = "show"
       /\ Len(lastCall.shown) = 1
       /\ lastCall.shown[1].message = "Document created"

\* the channel delivers a document whose ID the collection has: the Store
\* warns and keeps its documents, and the user is told of a new document
C32_Witness ==
  /\ lastCall.op = "handleNotification" /\ lastCall.was
  /\ lastCall.trace = << "warn", "show" >>
  /\ lastCall.shown # <<>>
  /\ lastCall.ref \notin Range(documents)

(***************************************************************************)
(* main.ts: the page constructs the DocumentController, starts the initial *)
(* fetch and, when the fetch has settled, adds what it got to an empty     *)
(* Store and connects the realtime channel.  p.w is the Store object and   *)
(* p.v the WebSocketService; wsLog.fetches counts the fetchDocuments()     *)
(* calls and wsLog.settled the promises that settled.                      *)
(***************************************************************************)
Page == [w |-> World, v |-> Service]

\* what the fetch function gives: a network error, a response whose status
\* is no success, or a successful response with its JSON body
FetchResponses ==
  { [kind |-> "network error", ok |-> FALSE, data |-> <<>>],
    [kind |-> "response", ok |-> FALSE, data |-> <<>>] }
  \cup { [kind |-> "response", ok |-> TRUE, data |-> d] :
           d \in UNION { [1..k -> { StringifyDoc(x) : x \in NewDocs }] : k \in 0..MaxFetched } }

\* ApiService.fetchDocuments(): the promise it returns, once settled
fetchDocuments(response) ==
  IF response.kind = "response" /\ response.ok
  THEN [state |-> "fulfilled",
        value |-> [i \in DOMAIN response.data |-> parseDocumentDates(response.data[i])]]
  ELSE [state |-> "rejected", value |-> <<>>]

\* documents.forEach(doc => store.addDocument(doc)) over the references refs
RECURSIVE forEachAddDocument(_, _, _)
forEachAddDocument(w, refs, setItemOk) ==
  IF refs = <<>> THEN w
  ELSE forEachAddDocument(addDocument(w, Head(refs), setItemOk), Tail(refs), setItemOk)

\* DocumentController.connect(): WebSocketManager.connect(), which calls
\* WebSocketService.connect()
controllerConnect(v, ctorOk) == connect([v EXCEPT !.log.connects = @ + 1], ctorOk)

\* the documents of the response become objects of the heap and are added
AddFetched(w, docs, setItemOk) ==
  forEachAddDocument([w EXCEPT !.heap = @ \o docs],
                     [i \in DOMAIN docs |-> Len(w.heap) + i], setItemOk)

\* a then-callback that adds what was fetched to any Store
onFulfilled_always(p, docs, ctorOk, setItemOk) ==
  [w |-> AddFetched(getInstance(p.w), docs, setItemOk),
   v |-> controllerConnect(p.v, ctorOk)]

\* the then-callback of main.ts
onFulfilled(p, docs, ctorOk, setItemOk) ==
  [w |-> IF Len(getDocuments(getInstance(p.w)).items) = 0
         THEN AddFetched(getInstance(p.w), docs, setItemOk)
         ELSE getInstance(p.w),
   v |-> controllerConnect(p.v, ctorOk)]

\* a catch-callback that stays offline
onRejected_offline(p, ctorOk) ==
  [w |-> [p.w EXCEPT !.trace = Append(@, "warn")], v |-> p.v]

\* the catch-callback of main.ts
onRejected(p, ctorOk) ==
  [w |-> [p.w EXCEPT !.trace = Append(@, "warn")],
   v |-> controllerConnect(p.v, ctorOk)]

\* the callback that runs when the promise of fetchDocuments() has settled
\* as outcome
settle(p, outcome, ctorOk, setItemOk) ==
  IF outcome.state = "fulfilled"
  THEN onFulfilled(p, outcome.value, ctorOk, setItemOk)
  ELSE onRejected(p, ctorOk)

\* the page's script runs: the controller is constructed and the fetch starts
Main ==
  /\ wsLog.fetches = 0
  /\ LET w == ControllerConstructor(World)
     IN  /\ Commit(w)
         /\ lastCall' = Call("main", "", 0, FALSE, w, 0)
         /\ Account(w, FALSE)
  /\ WSCommit([Service EXCEPT !.log.fetches = @ + 1])
  /\ UNCHANGED << arrays, held, clientRefs, nClientMut, subscribed, gone,
                  wsLast, idle, doomed, abandoned >>

\* the fetch settles and the callback of main.ts runs
FetchSettles(response, ctorOk, setItemOk) ==
  /\ wsLog.settled < wsLog.fetches
  /\ CtorAllowed(ctorOk)
  /\ LET p == settle([Page EXCEPT !.v.log.settled = @ + 1], fetchDocuments(response),
                     ctorOk, setItemOk)
     IN  /\ Commit(p.w)
         /\ lastCall' = [Call("fetchSettled", response, Len(heap), documents # <<>>, p.w,
                              fetchDocuments(response).state)
                           EXCEPT !.before = [docs |-> Deref(World, documents),
                                              storage |-> storage,
                                              socks |-> Len(socks) + Cardinality(timers)]]
         /\ Account(p.w, FALSE)
         /\ WSStep("settle", 0, NoData, p.v)
  /\ UNCHANGED << arrays, held, clientRefs, nClientMut, subscribed, gone >>

\* the page from its load on: the user creates documents, the fetch settles,
\* and the sockets and timers of the channel have their events
BootNext ==
  \/ Main
  \/ (\E doc \in NewDocs : SubmitModal(doc, TRUE)) /\ UNCHANGED wsVars
  \/ \E response \in FetchResponses, ctorOk \in BOOLEAN :
       FetchSettles(response, ctorOk, TRUE)
  \/ (\E id \in DOMAIN socks : SocketOpen(id)) /\ UNCHANGED storeVars
  \/ (\E id \in DOMAIN socks : SocketClose(id)) /\ UNCHANGED storeVars
  \/ (\E t \in timers, ctorOk \in BOOLEAN : TimerFires(t, ctorOk)) /\ UNCHANGED storeVars

BootSpec == ControllerInit /\ [][BootNext]_vars

\* C33: controller.connect() is called once, when the initial fetch has
\* settled, and no socket is constructed before; a fetch that failed (network
\* error or a status that is no success) is logged, leaves the documents and
\* the snapshot as they were, and is followed by the connection attempt
C33_ConnectOnceAfterFetch ==
  /\ wsLog.fetches <= 1 /\ wsLog.settled <= wsLog.fetches
  /\ wsLog.connects = wsLog.settled
  /\ wsLog.settled = 0 => socks = <<>> /\ timers = {} /\ wsLog.throws = 0
  /\ wsLog.settled = 1 => Len(socks) + wsLog.throws >= 1
  /\ (lastCall.op = "fetchSettled" /\ lastCall.ret = "rejected") =>
       /\ lastCall.trace = << "warn" >>
       /\ Deref(World, documents) = lastCall.before.docs
       /\ storage = lastCall.before.storage
       /\ lastCall.invoked = <<>>

\* the server answered with a status that is no success; the page shows the
\* hydrated document and its channel is open
C33_Witness ==
  /\ lastCall.op = "fetchSettled" /\ lastCall.ret = "rejected"
  /\ lastCall.arg.kind = "response"
  /\ Len(documents) = 1
  /\ ChannelOpen

\* the documents of s whose ID no earlier document of s has
RECURSIVE FirstOfEachID(_, _)
FirstOfEachID(s, i) ==
  IF i > Len(s) THEN <<>>
  ELSE (IF \E j \in 1..(i - 1) : s[j].ID = s[i].ID THEN <<>> ELSE << s[i] >>)
       \o FirstOfEachID(s, i + 1)

\* the effects of addDocument called once on each document of s, in order,
\* by a Store that is empty before the first call
RECURSIVE AddedInOrder(_, _)
AddedInOrder(s, i) ==
  IF i > Len(s) THEN <<>>
  ELSE (IF \E j \in 1..(i - 1) : s[j].ID = s[i].ID THEN << "warn" >>
        ELSE << "push", "save", "notify" >>)
       \o AddedInOrder(s, i + 1)

\* C38: when the initial fetch resolves and the Store holds a document, the
\* Store is left as it was: no addDocument call is made; when the Store is
\* empty, addDocument is called once on each fetched document in response
\* order, so the collection is the fetched documents in that order (one per ID)
C38_FetchedOnlyIntoEmptyStore ==
  (lastCall.op = "fetchSettled" /\ lastCall.ret = "fulfilled") =>
    LET fetched == fetchDocuments(lastCall.arg).value
    IN  IF lastCall.before.docs # <<>>
        THEN /\ lastCall.trace = <<>>
             /\ Deref(World, documents) = lastCall.before.docs
             /\ storage = lastCall.before.storage
             /\ Len(heap) = lastCall.ref
        ELSE /\ lastCall.trace = AddedInOrder(fetched, 1)
             /\ Deref(World, documents) = FirstOfEachID(fetched, 1)
             /\ Len(lastCall.rendered) = Len(documents)

\* the user created a document while the fetch was in flight: the two
\* documents of the response are not added
C38_Witness ==
  /\ lastCall.op = "fetchSettled" /\ lastCall.ret = "fulfilled"
  /\ Len(lastCall.arg.data) = 2
  /\ lastCall.arg.data[1].ID # lastCall.arg.data[2].ID
  /\ Len(documents) = 1 /\ loadCalls = 1 /\ documentMap # {}
  /\ lastCall.trace = <<>>

(***************************************************************************)
(* The WebSocketService when new WebSocket(url) always throws              *)
(***************************************************************************)
\* the owner calls connect() and the constructor throws
ConnectFails ==
  /\ wsLog.connects < MaxConnects
  /\ wsLog.throws < MaxFailures
  /\ WSStep("connect", 0, NoData, connect([Service EXCEPT !.log.connects = @ + 1], FALSE))

\* the reconnect delay of timer t has elapsed and the constructor throws
TimerFiresFails(t) ==
  /\ t \in timers
  /\ wsLog.throws < MaxFailures
  /\ WSStep("timer", t, NoData, connect([Service EXCEPT !.timers = @ \ {t}], FALSE))

WSFailNext ==
  \/ ConnectFails /\ UNCHANGED storeVars
  \/ (\E t \in timers : TimerFiresFails(t)) /\ UNCHANGED storeVars
  \/ Disconnect /\ UNCHANGED storeVars

WSFailSpec == WSInit /\ [][WSFailNext]_vars

\* C34: a connect() whose constructor throws returns normally, having done
\* what a close event does: below the budget it counts one retry and sets
\* one reconnect timer, at the budget it only logs; after one connect() with
\* a constructor that always throws there are at most 1 + 5 construction
\* attempts, and exactly 1 + 5 when no timer is pending any more
C34_ThrowingConstructorIsRetried ==
  /\ wsLast.op \in {"connect", "timer"} =>
       /\ wsLast.retry = (IF wsLast.was < maxReconnectAttempts THEN "scheduled" ELSE "offline")
       /\ reconnectAttempts = Min(wsLast.was + 1, maxReconnectAttempts)
       /\ wsLast.retry = "scheduled" => reconnectTimeout \in timers
       /\ socks = <<>> /\ ws = 0
  /\ (wsLog.connects = 1 /\ wsLog.disconnects = 0) =>
       /\ wsLog.throws <= 1 + maxReconnectAttempts
       /\ wsLog.scheduled = Min(wsLog.throws, maxReconnectAttempts)
       /\ timers = {} <=> wsLog.throws = 1 + maxReconnectAttempts
       /\ Cardinality(timers) <= 1

\* the sixth attempt has failed: no timer is pending
C34_Witness ==
  /\ wsLog.connects = 1 /\ wsLog.disconnects = 0
  /\ wsLog.throws = 1 + maxReconnectAttempts
  /\ wsLast.op = "timer" /\ wsLast.retry = "offline"
  /\ timers = {} /\ reconnectAttempts = maxReconnectAttempts

(***************************************************************************)
(* The WebSocketService under any interleaving                             *)
(***************************************************************************)
\* C35: the retry counter is at least 0 and at most 5 in every state, and
\* no step changes it other than to 0 or by adding one
C35_CounterInRange ==
  /\ reconnectAttempts \in 0..maxReconnectAttempts
  /\ reconnectAttempts \in {0, wsLast.was, wsLast.was + 1}
  /\ wsLast.retry = "offline" => wsLast.was = maxReconnectAttempts

\* after two connect() calls a socket closes with the counter at 5: the
\* counter stays at 5
C35_Witness ==
  /\ wsLast.op = "close" /\ wsLast.retry = "offline"
  /\ wsLast.was = maxReconnectAttempts /\ reconnectAttempts = maxReconnectAttempts
  /\ wsLog.connects = 2 /\ wsLog.throws = 1

\* the sockets whose handlers can still run: those that are not closed
LiveSockets == { id \in DOMAIN socks : socks[id] # "CLOSED" }

\* C36: under any interleaving of connect() calls, close events and timer
\* firings there is at most one pending reconnect timer and at most one
\* socket whose handlers are attached, and after disconnect() no reconnect
\* timer is pending
C36_OneTimerOneSocket ==
  /\ Cardinality(timers) <= 1
  /\ Cardinality(LiveSockets) <= 1
  /\ wsLast.op = "disconnect" => timers = {}

\* C37: once disconnect() has returned, the notification handler is not
\* called until connect() is called again: a step that hands a notification
\* to the handler is never taken while the service is disconnected
C37_NoDeliveryAfterDisconnect ==
  ~(idle /\ wsLast.op = "deliver" /\ handled # <<>>)

(***************************************************************************)
(* The Store and a client that subscribes each of its listeners twice, and *)
(* so holds two unsubscribe handles of each                                *)
(***************************************************************************)
\* the client calls subscribe(l) and subscribe(l) again
SubscribeTwice(l) ==
  /\ instance # 0
  /\ LET w == subscribe(subscribe(World, l), l)
     IN  /\ Commit(w)
         /\ lastCall' = [Call("subscribeTwice", l, 0, l \in Range(subscribed), w, 0)
                           EXCEPT !.before = listeners]
         /\ Account(w, FALSE)
  /\ subscribed' = IF l \in Range(subscribed) THEN subscribed ELSE Append(subscribed, l)
  /\ gone' = gone \ {l}
  /\ UNCHANGED << arrays, held, clientRefs, nClientMut >>

\* the client calls another unsubscribe handle of l, after one was called
\* and l was not subscribed since
UnsubscribeStale(l) ==
  /\ instance # 0
  /\ l \in gone
  /\ LET w == unsubscribe(World, l)
     IN  /\ Commit(w)
         /\ lastCall' = [Call("unsubscribeStale", l, 0, FALSE, w, 0)
                           EXCEPT !.before = listeners]
  /\ UNCHANGED << arrays, held, clientRefs, nClientMut, subscribed, owed, gone >>

ListenerNext ==
  \/ GetInstance /\ UNCHANGED wsVars
  \/ (\E l \in Listeners : SubscribeTwice(l)) /\ UNCHANGED wsVars
  \/ (\E l \in Listeners : Unsubscribe(l)) /\ UNCHANGED wsVars
  \/ (\E l \in Listeners : UnsubscribeStale(l)) /\ UNCHANGED wsVars
  \/ (\E doc \in NewDocs : AddDocument(doc, TRUE)) /\ UNCHANGED wsVars
  \/ (\E m \in ViewModes : SetViewMode(m)) /\ UNCHANGED wsVars

ListenerSpec == WSInit /\ [][ListenerNext]_vars

\* C39: a listener subscribed twice is registered once and invoked once by
\* each mutation; one call of one of its unsubscribe handles removes it, and
\* a call of the other handle then changes nothing
C39_ListenersAreASet ==
  /\ \A l \in Listeners : Count(listeners, l) <= 1
  /\ listeners = subscribed
  /\ lastCall.op = "subscribeTwice" =>
       listeners = (IF lastCall.was THEN lastCall.before
                    ELSE Append(lastCall.before, lastCall.arg))
  /\ "notify" \in Range(lastCall.trace) =>
       \A l \in Listeners :
          Count(lastCall.invoked, l) = (IF l \in Range(subscribed) THEN 1 ELSE 0)
  /\ lastCall.op = "unsubscribe" => lastCall.arg \notin Range(listeners)
  /\ lastCall.op = "unsubscribeStale" =>
       /\ listeners = lastCall.before
       /\ lastCall.invoked = <<>> /\ lastCall.trace = <<>>

\* both listeners were subscribed twice, one handle of L1 was called and
\* then the other: L2 is still registered, once
C39_Witness ==
  /\ lastCall.op = "unsubscribeStale" /\ lastCall.arg = "L1"
  /\ listeners = << "L2" >>
  /\ viewMode = "grid" /\ Len(documents) = 1

(***************************************************************************)
(* A write to localStorage that fails                                      *)
(***************************************************************************)
\* C40: an addDocument call whose write to localStorage fails logs the
\* error and goes on: the document is appended, its ID recorded and every
\* subscriber notified once, as when the write succeeds; localStorage keeps
\* the item it had and nothing else differs
C40_FailedWriteIsAbsorbed ==
  [][(lastCall' # lastCall /\ lastCall'.op = "addDocument"
        /\ "error" \in Range(lastCall'.trace)) =>
       /\ lastCall'.trace = << "push", "save", "error", "notify" >>
       /\ storage' = storage
       /\ documents' = Append(documents, lastCall'.ref)
       /\ heap'[lastCall'.ref].ID = lastCall'.arg
       /\ documentMap' = documentMap \cup {lastCall'.arg}
       /\ lastCall'.invoked = listeners
       /\ lastCall'.seen.stored = storage
       /\ UNCHANGED << instance, listeners, sortField, sortOrder, viewMode >>
    ]_vars

\* the second document's write failed: both documents are in the collection,
\* the snapshot holds the first, and the two subscribers were told
C40_Witness ==
  /\ lastCall.op = "addDocument" /\ "error" \in Range(lastCall.trace)
  /\ Len(documents) = 2
  /\ storage.kind = "json" /\ Len(storage.docs) = 1
  /\ Len(lastCall.invoked) = 2

====
